---- MODULE Spec2Model ----
(***************************************************************************)
(* TraderCat: the four signal strategies (Divergence, Hidden Divergence,   *)
(* Moving Average, Bollinger Bands), TradeBot.run and run_all_bots.        *)
(*                                                                         *)
(* Conventions of the translation from Python:                             *)
(*  - an optional number is a set: {} is None, {v} is the number v;        *)
(*  - floats are exact integers or integer fractions: "x > 1.2 * y" is     *)
(*    10 * x > 12 * y;                                                     *)
(*  - an indicator point is a function from field names (strings, built    *)
(*    from the parameters of the get_indicator call as the provider does)  *)
(*    to optional numbers; reading a field the point does not have is an   *)
(*    AttributeError, comparing None with a number is a TypeError;         *)
(*  - a call's outcome is a record: raised = FALSE with the SignalModel    *)
(*    returned, or raised = TRUE with the exception's class;               *)
(*  - Python's s[-1], s[-2] are At(s, -1), At(s, -2).                      *)
(***************************************************************************)
EXTENDS Integers, Sequences, FiniteSets, TLC

VARIABLES
    strategy,      \* StrategySpec: name of the strategy last called ("" before)
    self,          \* StrategySpec: the strategy instance (its configuration and provider)
    candles,       \* StrategySpec: the candle window passed to generate_signal
    outcome,       \* StrategySpec: what the call did (returned SignalModel or raised)
    again,         \* StrategySpec: what a second, identical call on the instance did
    fn,            \* PureSpec: name of the helper method last called ("" before)
    args,          \* PureSpec: the arguments it was called with
    result,        \* PureSpec: the value it returned
    pc,            \* run_all_bots: position in the coroutine
    bot,           \* run_all_bots: index of the bot being run (1-based)
    symbols,       \* run_all_bots: the symbol list it was called with
    all_signals,   \* run_all_bots: the collected {"symbol", "signals"} entries
    run,           \* TradeBot.run of the current bot: its locals and call log
    log,           \* collaborator call log: fetches, executor hand-offs, sleeps, failures
    sent           \* messages handed to discord_notifier.send, in order

vars ==
    <<strategy, self, candles, outcome, again, fn, args, result,
      pc, bot, symbols, all_signals, run, log, sent>>

callVars == <<strategy, self, candles, outcome, again>>
pureVars == <<fn, args, result>>
stratVars == <<callVars, pureVars>>
runnerVars == <<pc, bot, symbols, all_signals, run, log, sent>>

-----------------------------------------------------------------------------
(* Bounds of the model *)

\* longest candle window the provider hands out
MaxCandles == 30
\* longest symbol list of one run_all_bots call
MaxSymbols == 3
\* longest price list passed to calculate_ema and longest period
MaxPrices == 4
MaxPeriod == 5
\* longest candle list passed to detect_swing_points and widest window
MaxSwingData == 5
MaxSwingWindow == 2

-----------------------------------------------------------------------------
(* Python values *)

None == {}
Some(v) == {v}
IsNone(o) == o = {}
Val(o) == CHOOSE v \in o : TRUE
\* an RSI level of so many points: RSI values are kept in hundredths of a point
Rsi(points) == 100 * points
\* truthiness of an optional number: None and 0 are falsy
TruthyNum(o) == o # {} /\ Val(o) # 0
\* truthiness of a list: the empty list is falsy
TruthyList(s) == Len(s) > 0

\* s[k] for a negative Python index k
At(s, k) == s[Len(s) + 1 + k]

HasAttr(p, f) == f \in DOMAIN p

RECURSIVE Join(_, _)
\* sep.join(parts)
Join(sep, parts) ==
    IF Len(parts) = 0 THEN ""
    ELSE IF Len(parts) = 1 THEN parts[1]
    ELSE parts[1] \o sep \o Join(sep, Tail(parts))

RECURSIVE Sum(_)
Sum(s) == IF Len(s) = 0 THEN 0 ELSE Head(s) + Sum(Tail(s))

Max2(a, b) == IF a >= b THEN a ELSE b

NoDetails == [k \in {} |-> None]

-----------------------------------------------------------------------------
(* SignalModel and call outcomes *)

SignalModel(sym, strat, sig, reason, details) ==
    [symbol |-> sym, strategy |-> strat, signal |-> sig,
     reason |-> reason, details |-> details]

\* reason omitted: the field's default
SignalModelNoReason(sym, strat, sig, details) ==
    SignalModel(sym, strat, sig, "N/A", details)

\* generate_signal returned `model` after `n` get_indicator calls
Return(model, n) == [raised |-> FALSE, model |-> model, calls |-> n]
\* generate_signal raised `exc` after `n` get_indicator calls
Raise(exc, n) == [raised |-> TRUE, exc |-> exc, calls |-> n]

\* "; ".join(reasons) if reasons else "No Signal Detected"
ReasonText(reasons) ==
    IF TruthyList(reasons) THEN Join("; ", reasons) ELSE "No Signal Detected"

-----------------------------------------------------------------------------
(* The market-data provider.  A provider holds, per indicator, what its    *)
(* backend computes for the window: raw = <<>> (an empty result) or        *)
(* <<old, cur>>, the point at every earlier index and the point at the     *)
(* last index, or <<oldest, prev, cur>> where the point before the last    *)
(* differs from the earlier ones.  get_indicator wraps them in fields      *)
(* named after the parameters of the call, index-aligned with the window.  *)

NoProvider == [present |-> FALSE]
Provider(market) == [present |-> TRUE, market |-> market]

RsiField(length) == "close_RSI_" \o ToString(length)
EmaField(length) == "close_EMA_" \o ToString(length)
SmaField(length) == "close_SMA_" \o ToString(length)
MacdSuffix(fast, slow, signal) ==
    ToString(fast) \o "_" \o ToString(slow) \o "_" \o ToString(signal)
MacdField(fast, slow, signal) == "close_MACD_" \o MacdSuffix(fast, slow, signal)
MacdSignalField(fast, slow, signal) == "close_MACDs_" \o MacdSuffix(fast, slow, signal)
StochSuffix(fast_k, slow_d, slow_k) ==
    ToString(fast_k) \o "_" \o ToString(slow_d) \o "_" \o ToString(slow_k)
StochKField(fast_k, slow_d, slow_k) == "STOCHk_" \o StochSuffix(fast_k, slow_d, slow_k)
StochDField(fast_k, slow_d, slow_k) == "STOCHd_" \o StochSuffix(fast_k, slow_d, slow_k)
BbSuffix(length, std) == ToString(length) \o "_" \o ToString(std) \o ".0"
BbUpperField(length, std) == "close_BBU_" \o BbSuffix(length, std)
BbLowerField(length, std) == "close_BBL_" \o BbSuffix(length, std)

\* one result point of indicator `indicator` called with `params`, from raw point r
IndicatorPoint(indicator, params, r) ==
    CASE indicator = "rsi" -> (RsiField(params.length) :> r)
      [] indicator = "ema" -> (EmaField(params.length) :> r)
      [] indicator = "sma" -> (SmaField(params.length) :> r)
      [] indicator = "macd" ->
            (MacdField(params.fast, params.slow, params.signal) :> r[1])
            @@ (MacdSignalField(params.fast, params.slow, params.signal) :> r[2])
      [] indicator = "stoch" ->
            (StochKField(params.fast_k_period, params.slow_d_period, params.slow_k_period) :> r[1])
            @@ (StochDField(params.fast_k_period, params.slow_d_period, params.slow_k_period) :> r[2])
      [] indicator = "bbands" ->
            (BbUpperField(params.length, params.std) :> r[1])
            @@ (BbLowerField(params.length, params.std) :> r[2])

\* OpenBBProvider.get_indicator(indicator, data, params)
get_indicator(provider, indicator, data, params) ==
    LET raw == provider.market[indicator]
    IN  IF raw = <<>> THEN <<>>
        ELSE [j \in 1..Len(data) |->
                IndicatorPoint(indicator, params,
                               IF j = Len(data) THEN raw[Len(raw)]
                               ELSE IF j = Len(data) - 1 THEN raw[Len(raw) - 1]
                               ELSE raw[1])]

-----------------------------------------------------------------------------
(* Crossover tests shared by Divergence and Bollinger Bands (same text in   *)
(* both files): every operand is checked against None before comparing.    *)

BullishCross(prev_a, prev_b, cur_a, cur_b) ==
    /\ ~IsNone(prev_a) /\ ~IsNone(prev_b)
    /\ ~IsNone(cur_a) /\ ~IsNone(cur_b)
    /\ Val(prev_a) <= Val(prev_b) /\ Val(cur_a) > Val(cur_b)

BearishCross(prev_a, prev_b, cur_a, cur_b) ==
    /\ ~IsNone(prev_a) /\ ~IsNone(prev_b)
    /\ ~IsNone(cur_a) /\ ~IsNone(cur_b)
    /\ Val(prev_a) >= Val(prev_b) /\ Val(cur_a) < Val(cur_b)

-----------------------------------------------------------------------------
(* DivergenceStrategy *)

DivergenceStrategy(data_provider) ==
    [provider |-> data_provider, bb_period |-> 20, rsi_period |-> 14,
     macd_fast |-> 12, macd_slow |-> 26, macd_signal |-> 9,
     kdj_fast_k_period |-> 14, kdj_slow_d_period |-> 3, kdj_slow_k_period |-> 3]

Divergence_get_name == "Divergence"

\* len(candles) < 3
DivergenceInsufficient(cs) == Len(cs) < 3

\* current_volume >= 1.2 * previous_volume
DivergenceVolumeGate(current_volume, previous_volume) ==
    10 * current_volume >= 12 * previous_volume

\* len(reasons) >= 2
DivergenceConfirmed(reasons) == Len(reasons) >= 2

\* the bullish RSI test with the level 30 included
DivergenceBullishRsi_inclusive(current_rsi, previous_rsi) ==
    Val(current_rsi) > Val(previous_rsi) /\ Val(current_rsi) <= Rsi(30)

\* the bullish branch's RSI test, both operands defined
DivergenceBullishRsi(current_rsi, previous_rsi) ==
    Val(current_rsi) > Val(previous_rsi) /\ Val(current_rsi) < Rsi(30)

\* the bearish branch's RSI test, both operands defined
DivergenceBearishRsi(current_rsi, previous_rsi) ==
    Val(current_rsi) < Val(previous_rsi) /\ Val(current_rsi) > Rsi(70)

\* the signal of lines 168-191, from the branch taken and the reasons it appended
DivergenceDecide(bullish, bearish, reasons, current_volume, previous_volume) ==
    LET branch ==
            IF bullish
            THEN IF DivergenceConfirmed(reasons)
                    /\ DivergenceVolumeGate(current_volume, previous_volume)
                 THEN "buy" ELSE "hold"
            ELSE IF bearish
            THEN IF DivergenceConfirmed(reasons) THEN "sell" ELSE "hold"
            ELSE "hold"
    IN  IF ~TruthyList(reasons) THEN "hold" ELSE branch

Divergence_generate_signal(this, symbol, cs) ==
    IF DivergenceInsufficient(cs)
    THEN Return(SignalModel(symbol, Divergence_get_name, "hold",
                    "Insufficient candles data for divergence analysis.", NoDetails), 0)
    ELSE IF ~this.provider.present
    THEN Return(SignalModel(symbol, Divergence_get_name, "hold",
                    "Data provider not set.", NoDetails), 0)
    ELSE
    LET rsi == get_indicator(this.provider, "rsi", cs, [length |-> this.rsi_period])
        macd == get_indicator(this.provider, "macd", cs,
                    [fast |-> this.macd_fast, slow |-> this.macd_slow,
                     signal |-> this.macd_signal])
        kdj == get_indicator(this.provider, "stoch", cs,
                    [fast_k_period |-> this.kdj_fast_k_period,
                     slow_d_period |-> this.kdj_slow_d_period,
                     slow_k_period |-> this.kdj_slow_k_period])
        previous_close == At(cs, -2).close
        current_close == At(cs, -1).close
        previous_volume == At(cs, -2).volume
        current_volume == At(cs, -1).volume
        \* the field names are literals in the source
        attributeError ==
            \/ TruthyList(rsi) /\ ~HasAttr(At(rsi, -2), "close_RSI_14")
            \/ TruthyList(macd) /\ ~HasAttr(At(macd, -2), "close_MACD_12_26_9")
            \/ TruthyList(macd) /\ ~HasAttr(At(macd, -2), "close_MACDs_12_26_9")
            \/ TruthyList(kdj) /\ ~HasAttr(At(kdj, -2), "STOCHk_14_3_3")
            \/ TruthyList(kdj) /\ ~HasAttr(At(kdj, -2), "STOCHd_14_3_3")
        previous_rsi == IF TruthyList(rsi) THEN At(rsi, -2)["close_RSI_14"] ELSE None
        current_rsi == IF TruthyList(rsi) THEN At(rsi, -1)["close_RSI_14"] ELSE None
        previous_macd == IF TruthyList(macd) THEN At(macd, -2)["close_MACD_12_26_9"] ELSE None
        current_macd == IF TruthyList(macd) THEN At(macd, -1)["close_MACD_12_26_9"] ELSE None
        previous_macd_signal ==
            IF TruthyList(macd) THEN At(macd, -2)["close_MACDs_12_26_9"] ELSE None
        current_macd_signal ==
            IF TruthyList(macd) THEN At(macd, -1)["close_MACDs_12_26_9"] ELSE None
        previous_kdj_k == IF TruthyList(kdj) THEN At(kdj, -2)["STOCHk_14_3_3"] ELSE None
        previous_kdj_d == IF TruthyList(kdj) THEN At(kdj, -2)["STOCHd_14_3_3"] ELSE None
        current_kdj_k == IF TruthyList(kdj) THEN At(kdj, -1)["STOCHk_14_3_3"] ELSE None
        current_kdj_d == IF TruthyList(kdj) THEN At(kdj, -1)["STOCHd_14_3_3"] ELSE None
        macd_bullish_cross ==
            BullishCross(previous_macd, previous_macd_signal, current_macd, current_macd_signal)
        macd_bearish_cross ==
            BearishCross(previous_macd, previous_macd_signal, current_macd, current_macd_signal)
        kdj_bullish_cross ==
            BullishCross(previous_kdj_k, previous_kdj_d, current_kdj_k, current_kdj_d)
        kdj_bearish_cross ==
            BearishCross(previous_kdj_k, previous_kdj_d, current_kdj_k, current_kdj_d)
        bullish == current_close < previous_close
        bearish == ~bullish /\ current_close > previous_close
        \* "current_rsi > previous_rsi" is evaluated unguarded in either branch
        typeError == (bullish \/ bearish) /\ (IsNone(current_rsi) \/ IsNone(previous_rsi))
        reasons ==
            IF bullish
            THEN (IF DivergenceBullishRsi(current_rsi, previous_rsi)
                  THEN <<"Bullish RSI divergence">> ELSE <<>>)
                 \o (IF macd_bullish_cross /\ Val(current_macd) < 0
                     THEN <<"Bullish MACD cross-over">> ELSE <<>>)
                 \o (IF kdj_bullish_cross /\ Val(current_kdj_k) < 20
                     THEN <<"Bullish KDJ cross-over">> ELSE <<>>)
            ELSE IF bearish
            THEN (IF DivergenceBearishRsi(current_rsi, previous_rsi)
                  THEN <<"Bearish RSI divergence">> ELSE <<>>)
                 \o (IF macd_bearish_cross /\ Val(current_macd) > 0
                     THEN <<"Bearish MACD cross-over">> ELSE <<>>)
                 \o (IF kdj_bearish_cross /\ Val(current_kdj_k) > 80
                     THEN <<"Bearish KDJ cross-over">> ELSE <<>>)
            ELSE <<>>
    IN  IF attributeError THEN Raise("AttributeError", 3)
        ELSE IF typeError THEN Raise("TypeError", 3)
        ELSE Return(SignalModel(symbol, Divergence_get_name,
                        DivergenceDecide(bullish, bearish, reasons,
                                         current_volume, previous_volume),
                        ReasonText(reasons), NoDetails), 3)


-----------------------------------------------------------------------------
(* Volume of the trailing window, shared shape of MAStrategy and            *)
(* BollingerBandStrategy: the volume_window volumes before the last one.   *)

\* sum(volumes[-volume_window-1:-1]) for len(volumes) >= volume_window + 1
TrailingVolumeSum(cs, volume_window) ==
    Sum([k \in 1..volume_window |-> cs[Len(cs) - volume_window - 1 + k].volume])

-----------------------------------------------------------------------------
(* MAStrategy *)

MAStrategy(data_provider) ==
    [provider |-> data_provider, ema_period |-> 10, sma_period |-> 20,
     rsi_period |-> 14, macd_fast |-> 12, macd_slow |-> 26, macd_signal |-> 9,
     volume_window |-> 5]

MA_get_name == "Moving Average"

\* vol_rise: len(volumes) >= volume_window + 1 and curr_vol > 1.2 * avg_vol,
\* avg_vol = sum(volumes[-volume_window-1:-1]) / volume_window
MAVolRise(cs, volume_window) ==
    IF Len(cs) >= volume_window + 1
    THEN 10 * At(cs, -1).volume * volume_window > 12 * TrailingVolumeSum(cs, volume_window)
    ELSE FALSE

\* prev_ema < prev_sma and curr_ema > curr_sma
MAEmaSmaBullish(prev_ema, prev_sma, curr_ema, curr_sma) ==
    Val(prev_ema) < Val(prev_sma) /\ Val(curr_ema) > Val(curr_sma)

\* prev_ema > prev_sma and curr_ema < curr_sma
MAEmaSmaBearish(prev_ema, prev_sma, curr_ema, curr_sma) ==
    Val(prev_ema) > Val(prev_sma) /\ Val(curr_ema) < Val(curr_sma)

\* prev_macd_val <= prev_signal_val and curr_macd_val > curr_signal_val
MAMacdBullish(prev_macd, prev_signal, curr_macd, curr_signal) ==
    Val(prev_macd) <= Val(prev_signal) /\ Val(curr_macd) > Val(curr_signal)

\* prev_macd_val >= prev_signal_val and curr_macd_val < curr_signal_val
MAMacdBearish(prev_macd, prev_signal, curr_macd, curr_signal) ==
    Val(prev_macd) >= Val(prev_signal) /\ Val(curr_macd) < Val(curr_signal)

\* MADecide with the buy branch's literal misspelt
MADecide_misspelt(ema_sma_bullish, ema_sma_bearish, macd_bullish, macd_bearish, curr_rsi, vol_rise) ==
    IF ema_sma_bullish /\ macd_bullish /\ ~IsNone(curr_rsi) /\ Val(curr_rsi) < Rsi(30) /\ vol_rise
    THEN "Buy"
    ELSE IF ema_sma_bearish /\ macd_bearish /\ ~IsNone(curr_rsi) /\ Val(curr_rsi) > Rsi(70)
            /\ vol_rise
    THEN "sell"
    ELSE "hold"

\* lines 155-161: the conjunction deciding the signal
MADecide(ema_sma_bullish, ema_sma_bearish, macd_bullish, macd_bearish, curr_rsi, vol_rise) ==
    IF ema_sma_bullish /\ macd_bullish /\ ~IsNone(curr_rsi) /\ Val(curr_rsi) < Rsi(30) /\ vol_rise
    THEN "buy"
    ELSE IF ema_sma_bearish /\ macd_bearish /\ ~IsNone(curr_rsi) /\ Val(curr_rsi) > Rsi(70)
            /\ vol_rise
    THEN "sell"
    ELSE "hold"

\* a strategy that calls get_indicator on the missing provider
MAProviderNotSet_raises(symbol) == Raise("AttributeError", 0)

\* if not self.provider: hold, "Data provider not set."
MAProviderNotSet(symbol) ==
    Return(SignalModel(symbol, MA_get_name, "hold", "Data provider not set.", NoDetails), 0)

MA_generate_signal(this, symbol, cs) ==
    IF ~this.provider.present
    THEN MAProviderNotSet(symbol)
    ELSE
    LET ema == get_indicator(this.provider, "ema", cs, [length |-> this.ema_period])
        sma == get_indicator(this.provider, "sma", cs, [length |-> this.sma_period])
        macd == get_indicator(this.provider, "macd", cs,
                    [fast |-> this.macd_fast, slow |-> this.macd_slow,
                     signal |-> this.macd_signal])
        rsi == get_indicator(this.provider, "rsi", cs, [length |-> this.rsi_period])
        maBlock == Len(ema) >= 2 /\ Len(sma) >= 2
        macdBlock == Len(macd) >= 2
        maAttributeError ==
            \/ maBlock /\ ~HasAttr(At(ema, -2), "close_EMA_10")
            \/ maBlock /\ ~HasAttr(At(sma, -2), "close_SMA_20")
        macdAttributeError ==
            \/ macdBlock /\ ~HasAttr(At(macd, -2), "close_MACD_12_26_9")
            \/ macdBlock /\ ~HasAttr(At(macd, -2), "close_MACDs_12_26_9")
        rsiAttributeError == TruthyList(rsi) /\ ~HasAttr(At(rsi, -1), "close_RSI_14")
        prev_ema == At(ema, -2)["close_EMA_10"]
        curr_ema == At(ema, -1)["close_EMA_10"]
        prev_sma == At(sma, -2)["close_SMA_20"]
        curr_sma == At(sma, -1)["close_SMA_20"]
        prev_macd_val == At(macd, -2)["close_MACD_12_26_9"]
        prev_signal_val == At(macd, -2)["close_MACDs_12_26_9"]
        curr_macd_val == At(macd, -1)["close_MACD_12_26_9"]
        curr_signal_val == At(macd, -1)["close_MACDs_12_26_9"]
        \* "a < b and c > d": c > d is evaluated only when a < b holds
        maTypeError ==
            /\ maBlock
            /\ \/ IsNone(prev_ema) \/ IsNone(prev_sma)
               \/ /\ Val(prev_ema) # Val(prev_sma)
                  /\ (IsNone(curr_ema) \/ IsNone(curr_sma))
        \* one of prev <= sig, prev >= sig always holds: the current pair is compared
        macdTypeError ==
            /\ macdBlock
            /\ \/ IsNone(prev_macd_val) \/ IsNone(prev_signal_val)
               \/ IsNone(curr_macd_val) \/ IsNone(curr_signal_val)
        ema_sma_bullish == maBlock /\ MAEmaSmaBullish(prev_ema, prev_sma, curr_ema, curr_sma)
        ema_sma_bearish == maBlock /\ MAEmaSmaBearish(prev_ema, prev_sma, curr_ema, curr_sma)
        macd_bullish ==
            macdBlock /\ MAMacdBullish(prev_macd_val, prev_signal_val,
                                       curr_macd_val, curr_signal_val)
        macd_bearish ==
            macdBlock /\ MAMacdBearish(prev_macd_val, prev_signal_val,
                                       curr_macd_val, curr_signal_val)
        curr_rsi == IF TruthyList(rsi) THEN At(rsi, -1)["close_RSI_14"] ELSE None
        vol_rise == MAVolRise(cs, this.volume_window)
        reasons ==
            (IF ema_sma_bullish THEN <<"EMA crosses above SMA (bullish)">> ELSE <<>>)
            \o (IF macd_bullish THEN <<"MACD bullish crossover">> ELSE <<>>)
            \o (IF ~IsNone(curr_rsi) /\ Val(curr_rsi) > Rsi(50) THEN <<"RSI above 50">> ELSE <<>>)
            \o (IF vol_rise THEN <<"Volume surge">> ELSE <<>>)
    IN  IF maAttributeError THEN Raise("AttributeError", 4)
        ELSE IF maTypeError THEN Raise("TypeError", 4)
        ELSE IF macdAttributeError THEN Raise("AttributeError", 4)
        ELSE IF macdTypeError THEN Raise("TypeError", 4)
        ELSE IF rsiAttributeError THEN Raise("AttributeError", 4)
        ELSE Return(SignalModel(symbol, MA_get_name,
                        MADecide(ema_sma_bullish, ema_sma_bearish, macd_bullish,
                                 macd_bearish, curr_rsi, vol_rise),
                        ReasonText(reasons), NoDetails), 4)

-----------------------------------------------------------------------------
(* BollingerBandStrategy *)

BollingerBandStrategy(data_provider) ==
    [provider |-> data_provider, bb_period |-> 20, bb_std |-> 2, rsi_period |-> 14,
     macd_fast |-> 12, macd_slow |-> 26, macd_signal |-> 9,
     kdj_fast_k_period |-> 14, kdj_slow_d_period |-> 3, kdj_slow_k_period |-> 3,
     volume_window |-> 5]

Bollinger_get_name == "Bollinger Bands"

\* BollingerMinCandles one short: "+ 1" for "+ 2"
BollingerMinCandles_short(this) ==
    Max2(this.bb_period, Max2(this.rsi_period, Max2(this.macd_slow,
         Max2(this.kdj_fast_k_period, this.volume_window)))) + 1

\* max(bb_period, rsi_period, macd_slow, kdj_fast_k_period, volume_window) + 2
BollingerMinCandles(this) ==
    Max2(this.bb_period, Max2(this.rsi_period, Max2(this.macd_slow,
         Max2(this.kdj_fast_k_period, this.volume_window)))) + 2

BollingerInsufficient(this, cs) == Len(cs) < BollingerMinCandles(this)

\* avg_vol as the fraction <<sum, volume_window>>, None when the window is short
BollingerAvgVol(cs, volume_window) ==
    IF (IF Len(cs) < volume_window + 1 THEN Len(cs) ELSE volume_window + 1) > volume_window
    THEN Some(<<TrailingVolumeSum(cs, volume_window), volume_window>>)
    ELSE None

\* truthiness of: avg_vol and current_volume > 1.2 * avg_vol
BollingerVolSpike(avg_vol, current_volume) ==
    /\ ~IsNone(avg_vol)
    /\ Val(avg_vol)[1] # 0
    /\ 10 * current_volume * Val(avg_vol)[2] > 12 * Val(avg_vol)[1]

\* getattr(bb_last, field, None)
BollingerBand(bb_last, field) ==
    IF ~IsNone(bb_last) /\ HasAttr(Val(bb_last), field) THEN Val(bb_last)[field] ELSE None

\* a buy branch that leaves the stochastic crossover out of the conjunction
BollingerBuy_nokdj(bb_lower, current_close, current_rsi, macd_bullish_cross, kdj_bullish_cross, vol_spike) ==
    /\ ~IsNone(bb_lower) /\ current_close < Val(bb_lower)
    /\ ~IsNone(current_rsi) /\ Val(current_rsi) < Rsi(30)
    /\ macd_bullish_cross /\ vol_spike

\* the condition of the buy branch, lines 201-207
BollingerBuy(bb_lower, current_close, current_rsi, macd_bullish_cross, kdj_bullish_cross, vol_spike) ==
    /\ ~IsNone(bb_lower) /\ current_close < Val(bb_lower)
    /\ ~IsNone(current_rsi) /\ Val(current_rsi) < Rsi(30)
    /\ macd_bullish_cross /\ kdj_bullish_cross /\ vol_spike

\* the condition of the sell branch, lines 212-218
BollingerSell(bb_upper, current_close, current_rsi, macd_bearish_cross, kdj_bearish_cross, vol_spike) ==
    /\ ~IsNone(bb_upper) /\ current_close > Val(bb_upper)
    /\ ~IsNone(current_rsi) /\ Val(current_rsi) > Rsi(70)
    /\ macd_bearish_cross /\ kdj_bearish_cross /\ vol_spike

\* the reasons of the hold branch, lines 224-243
BollingerHoldReasons(bb_lower, bb_upper, current_close, current_rsi, macd_bullish_cross, macd_bearish_cross, kdj_bullish_cross, kdj_bearish_cross, vol_spike) ==
    LET found ==
            (IF TruthyNum(bb_lower) /\ current_close < Val(bb_lower)
             THEN <<"Price below BB lower">> ELSE <<>>)
            \o (IF TruthyNum(bb_upper) /\ current_close > Val(bb_upper)
                THEN <<"Price above BB upper">> ELSE <<>>)
            \o (IF ~IsNone(current_rsi) /\ Val(current_rsi) < Rsi(30)
                THEN <<"RSI oversold">> ELSE <<>>)
            \o (IF ~IsNone(current_rsi) /\ Val(current_rsi) > Rsi(70)
                THEN <<"RSI overbought">> ELSE <<>>)
            \o (IF macd_bullish_cross THEN <<"MACD bullish cross">> ELSE <<>>)
            \o (IF macd_bearish_cross THEN <<"MACD bearish cross">> ELSE <<>>)
            \o (IF kdj_bullish_cross THEN <<"KDJ bullish cross">> ELSE <<>>)
            \o (IF kdj_bearish_cross THEN <<"KDJ bearish cross">> ELSE <<>>)
            \o (IF vol_spike THEN <<"Volume spike">> ELSE <<>>)
    IN  IF ~TruthyList(found) THEN <<"No strong signal">> ELSE found

Bollinger_generate_signal(this, symbol, cs) ==
    IF BollingerInsufficient(this, cs)
    THEN Return(SignalModel(symbol, Bollinger_get_name, "hold",
                            "Insufficient candles data", NoDetails), 0)
    ELSE IF ~this.provider.present
    THEN Return(SignalModel(symbol, Bollinger_get_name, "hold",
                            "Data provider not set", NoDetails), 0)
    ELSE
    LET bb == get_indicator(this.provider, "bbands", cs,
                    [length |-> this.bb_period, std |-> this.bb_std])
        rsi == get_indicator(this.provider, "rsi", cs, [length |-> this.rsi_period])
        macd == get_indicator(this.provider, "macd", cs,
                    [fast |-> this.macd_fast, slow |-> this.macd_slow,
                     signal |-> this.macd_signal])
        kdj == get_indicator(this.provider, "stoch", cs,
                    [fast_k_period |-> this.kdj_fast_k_period,
                     slow_d_period |-> this.kdj_slow_d_period,
                     slow_k_period |-> this.kdj_slow_k_period])
        current_close == At(cs, -1).close
        current_volume == At(cs, -1).volume
        attributeError ==
            \/ TruthyList(rsi) /\ ~HasAttr(At(rsi, -1), "close_RSI_14")
            \/ TruthyList(macd) /\ ~HasAttr(At(macd, -2), "close_MACD_12_26_9")
            \/ TruthyList(macd) /\ ~HasAttr(At(macd, -2), "close_MACDs_12_26_9")
            \/ TruthyList(kdj) /\ ~HasAttr(At(kdj, -2), "STOCHk_14_3_3")
            \/ TruthyList(kdj) /\ ~HasAttr(At(kdj, -2), "STOCHd_14_3_3")
        current_rsi == IF TruthyList(rsi) THEN At(rsi, -1)["close_RSI_14"] ELSE None
        previous_macd == IF TruthyList(macd) THEN At(macd, -2)["close_MACD_12_26_9"] ELSE None
        current_macd == IF TruthyList(macd) THEN At(macd, -1)["close_MACD_12_26_9"] ELSE None
        previous_macd_signal ==
            IF TruthyList(macd) THEN At(macd, -2)["close_MACDs_12_26_9"] ELSE None
        current_macd_signal ==
            IF TruthyList(macd) THEN At(macd, -1)["close_MACDs_12_26_9"] ELSE None
        previous_kdj_k == IF TruthyList(kdj) THEN At(kdj, -2)["STOCHk_14_3_3"] ELSE None
        previous_kdj_d == IF TruthyList(kdj) THEN At(kdj, -2)["STOCHd_14_3_3"] ELSE None
        current_kdj_k == IF TruthyList(kdj) THEN At(kdj, -1)["STOCHk_14_3_3"] ELSE None
        current_kdj_d == IF TruthyList(kdj) THEN At(kdj, -1)["STOCHd_14_3_3"] ELSE None
        bb_last == IF TruthyList(bb) THEN Some(At(bb, -1)) ELSE None
        bb_upper == BollingerBand(bb_last, "close_BBU_20_2.0")
        bb_lower == BollingerBand(bb_last, "close_BBL_20_2.0")
        macd_bullish_cross ==
            BullishCross(previous_macd, previous_macd_signal, current_macd, current_macd_signal)
        macd_bearish_cross ==
            BearishCross(previous_macd, previous_macd_signal, current_macd, current_macd_signal)
        kdj_bullish_cross ==
            BullishCross(previous_kdj_k, previous_kdj_d, current_kdj_k, current_kdj_d)
        kdj_bearish_cross ==
            BearishCross(previous_kdj_k, previous_kdj_d, current_kdj_k, current_kdj_d)
        avg_vol == BollingerAvgVol(cs, this.volume_window)
        vol_spike == BollingerVolSpike(avg_vol, current_volume)
        buy == BollingerBuy(bb_lower, current_close, current_rsi, macd_bullish_cross,
                            kdj_bullish_cross, vol_spike)
        sell == BollingerSell(bb_upper, current_close, current_rsi, macd_bearish_cross,
                              kdj_bearish_cross, vol_spike)
        signal == IF buy THEN "buy" ELSE IF sell THEN "sell" ELSE "hold"
        reasons ==
            IF buy
            THEN <<"Price below BB lower, RSI oversold, MACD/KDJ bullish cross, volume spike">>
            ELSE IF sell
            THEN <<"Price above BB upper, RSI overbought, MACD/KDJ bearish cross, volume spike">>
            ELSE BollingerHoldReasons(bb_lower, bb_upper, current_close, current_rsi,
                                      macd_bullish_cross, macd_bearish_cross,
                                      kdj_bullish_cross, kdj_bearish_cross, vol_spike)
        details ==
            [bb |-> bb_last, rsi |-> current_rsi, macd |-> current_macd,
             macd_signal |-> current_macd_signal, kdj_k |-> current_kdj_k,
             kdj_d |-> current_kdj_d, volume |-> current_volume,
             avg_volume |-> avg_vol, reasons |-> reasons]
    IN  IF attributeError THEN Raise("AttributeError", 4)
        ELSE Return(SignalModel(symbol, Bollinger_get_name, signal,
                                ReasonText(reasons), details), 4)


-----------------------------------------------------------------------------
(* HiddenDivergenceStrategy *)

\* a Hidden Divergence whose default ema_period is 20
HiddenDivergenceStrategy_ema20(data_provider) ==
    [provider |-> data_provider, ema_period |-> 20, swing_window |-> 1,
     rsi_period |-> 14, macd_fast |-> 12, macd_slow |-> 26, macd_signal |-> 9,
     kdj_fast_k_period |-> 14, kdj_slow_d_period |-> 3, kdj_slow_k_period |-> 3]

HiddenDivergenceStrategy(data_provider) ==
    [provider |-> data_provider, ema_period |-> 50, swing_window |-> 1,
     rsi_period |-> 14, macd_fast |-> 12, macd_slow |-> 26, macd_signal |-> 9,
     kdj_fast_k_period |-> 14, kdj_slow_d_period |-> 3, kdj_slow_k_period |-> 3]

Hidden_get_name == "Hidden Divergence"

RECURSIVE Gcd(_, _)
Gcd(a, b) == IF b = 0 THEN a ELSE Gcd(b, a % b)
Abs(a) == IF a < 0 THEN -a ELSE a
\* the fraction n/d (d > 0) in lowest terms: floats of the source, kept exact
Frac(n, d) ==
    LET g == Gcd(Abs(n), d) IN IF g = 0 THEN <<0, 1>> ELSE <<n \div g, d \div g>>

\* s[i] for a Python index i >= 0
Py(s, i) == s[i + 1]

\* the recursion with the multiplier 1 / (period + 1)
EmaStep_halved(price, last, period) ==
    Frac((price * last[2] - last[1]) + last[1] * (period + 1), last[2] * (period + 1))

\* (prices[i] - ema[-1]) * multiplier + ema[-1], multiplier = 2 / (period + 1),
\* where last = ema[-1] as a fraction
EmaStep(price, last, period) ==
    Frac(2 * (price * last[2] - last[1]) + last[1] * (period + 1), last[2] * (period + 1))

RECURSIVE calculate_ema_upto(_, _, _)
\* the list `ema` of calculate_ema after the loop's first n iterations
calculate_ema_upto(prices, period, n) ==
    IF n = 0 THEN <<>>
    ELSE LET ema == calculate_ema_upto(prices, period, n - 1)
             i == n - 1
         IN  IF i < period - 1 THEN Append(ema, None)
             ELSE IF i = period - 1
             THEN Append(ema, Some(Frac(Sum(SubSeq(prices, 1, period)), period)))
             ELSE Append(ema, Some(EmaStep(Py(prices, i), Val(At(ema, -1)), period)))

\* HiddenDivergenceStrategy.calculate_ema(prices, period)
calculate_ema(prices, period) == calculate_ema_upto(prices, period, Len(prices))

\* the swing-high test with equal highs accepted
IsSwingHigh_weak(data, i, window) ==
    \A j \in 1..window :
        Py(data, i).high >= Py(data, i - j).high /\ Py(data, i).high >= Py(data, i + j).high

\* the swing-high test of data[i] for window `window`
IsSwingHigh(data, i, window) ==
    \A j \in 1..window :
        Py(data, i).high > Py(data, i - j).high /\ Py(data, i).high > Py(data, i + j).high

\* the swing-low test of data[i] for window `window`
IsSwingLow(data, i, window) ==
    \A j \in 1..window :
        Py(data, i).low < Py(data, i - j).low /\ Py(data, i).low < Py(data, i + j).low

\* a detection that runs to both ends of the data and compares an index with
\* the neighbours that exist
detect_swing_points_edges(data, window) ==
    LET range == [k \in 1..Len(data) |-> k - 1]
        near(i) == {j \in 1..window : i - j >= 0 /\ i + j <= Len(data) - 1}
        isHigh(i) == \A j \in near(i) :
            Py(data, i).high > Py(data, i - j).high /\ Py(data, i).high > Py(data, i + j).high
        isLow(i) == \A j \in near(i) :
            Py(data, i).low < Py(data, i - j).low /\ Py(data, i).low < Py(data, i + j).low
    IN  <<SelectSeq(range, isHigh), SelectSeq(range, isLow)>>

\* HiddenDivergenceStrategy.detect_swing_points(data, window): Python indices
detect_swing_points(data, window) ==
    LET range == [k \in 1..Max2(Len(data) - 2 * window, 0) |-> window + k - 1]
        isHigh(i) == IsSwingHigh(data, i, window)
        isLow(i) == IsSwingLow(data, i, window)
    IN  <<SelectSeq(range, isHigh), SelectSeq(range, isLow)>>

\* len(candles) < max(self.ema_period, 3)
HiddenInsufficient(this, cs) == Len(cs) < Max2(this.ema_period, 3)

\* "uptrend" if current_price > current_ema else "downtrend"
HiddenTrend(current_price, current_ema) ==
    IF current_price * Val(current_ema)[2] > Val(current_ema)[1]
    THEN "uptrend" ELSE "downtrend"

\* a selection that falls back on the swing points of the other kind
HiddenLastSwing_anykind(trend, swing_highs, swing_lows) ==
    IF trend = "uptrend" /\ TruthyList(swing_lows) THEN Some(At(swing_lows, -1))
    ELSE IF trend = "downtrend" /\ TruthyList(swing_highs) THEN Some(At(swing_highs, -1))
    ELSE IF TruthyList(swing_lows) THEN Some(At(swing_lows, -1))
    ELSE IF TruthyList(swing_highs) THEN Some(At(swing_highs, -1))
    ELSE None

\* the most recent swing point for the trend, None when there is none
HiddenLastSwing(trend, swing_highs, swing_lows) ==
    IF trend = "uptrend" /\ TruthyList(swing_lows) THEN Some(At(swing_lows, -1))
    ELSE IF trend = "downtrend" /\ TruthyList(swing_highs) THEN Some(At(swing_highs, -1))
    ELSE None

\* 3 * k - 2 * d if k and d else None
HiddenJ(k, d) ==
    IF TruthyNum(k) /\ TruthyNum(d) THEN Some(3 * Val(k) - 2 * Val(d)) ELSE None

\* len(reasons) >= 2
HiddenConfirmed(reasons) == Len(reasons) >= 2

Hidden_generate_signal(this, symbol, cs) ==
    IF HiddenInsufficient(this, cs)
    THEN Return(SignalModelNoReason(symbol, Hidden_get_name, "hold",
                    [reason |-> "Insufficient candles data for swing point and trend analysis."]),
                0)
    ELSE IF ~this.provider.present
    THEN Return(SignalModel(symbol, Hidden_get_name, "hold", "Data provider not set.",
                            NoDetails), 0)
    ELSE
    LET rsi == get_indicator(this.provider, "rsi", cs, [length |-> this.rsi_period])
        macd == get_indicator(this.provider, "macd", cs,
                    [fast |-> this.macd_fast, slow |-> this.macd_slow,
                     signal |-> this.macd_signal])
        kdj == get_indicator(this.provider, "stoch", cs,
                    [fast_k_period |-> this.kdj_fast_k_period,
                     slow_d_period |-> this.kdj_slow_d_period,
                     slow_k_period |-> this.kdj_slow_k_period])
        closing_prices == [k \in 1..Len(cs) |-> cs[k].close]
        ema_values == calculate_ema(closing_prices, this.ema_period)
        current_price == At(cs, -1).close
        current_ema == At(ema_values, -1)
        trend == HiddenTrend(current_price, current_ema)
        swings == detect_swing_points(cs, this.swing_window)
        swing_highs == swings[1]
        swing_lows == swings[2]
        last_swing_index == HiddenLastSwing(trend, swing_highs, swing_lows)
        noSwing == IsNone(last_swing_index) \/ Val(last_swing_index) >= Len(cs) - 1
        sw == Val(last_swing_index)
        swing_price == Py(cs, sw).close
        attributeError ==
            \/ TruthyList(rsi) /\ ~HasAttr(At(rsi, -1), "close_RSI_14")
            \/ TruthyList(macd) /\ ~HasAttr(At(macd, -1), "close_MACD_12_26_9")
            \/ TruthyList(kdj) /\ ~HasAttr(At(kdj, -1), "STOCHk_14_3_3")
            \/ TruthyList(kdj) /\ ~HasAttr(At(kdj, -1), "STOCHd_14_3_3")
        current_rsi == IF TruthyList(rsi) THEN At(rsi, -1)["close_RSI_14"] ELSE None
        swing_rsi == IF TruthyList(rsi) THEN Py(rsi, sw)["close_RSI_14"] ELSE None
        current_macd == IF TruthyList(macd) THEN At(macd, -1)["close_MACD_12_26_9"] ELSE None
        swing_macd == IF TruthyList(macd) THEN Py(macd, sw)["close_MACD_12_26_9"] ELSE None
        current_kdj_k == IF TruthyList(kdj) THEN At(kdj, -1)["STOCHk_14_3_3"] ELSE None
        current_kdj_d == IF TruthyList(kdj) THEN At(kdj, -1)["STOCHd_14_3_3"] ELSE None
        current_kdj_j == HiddenJ(current_kdj_k, current_kdj_d)
        swing_kdj_k == IF TruthyList(kdj) THEN Py(kdj, sw)["STOCHk_14_3_3"] ELSE None
        swing_kdj_d == IF TruthyList(kdj) THEN Py(kdj, sw)["STOCHd_14_3_3"] ELSE None
        swing_kdj_j == HiddenJ(swing_kdj_k, swing_kdj_d)
        details ==
            [current_rsi |-> current_rsi, swing_rsi |-> swing_rsi,
             current_macd |-> current_macd, swing_macd |-> swing_macd,
             current_kdj_j |-> current_kdj_j, swing_kdj_j |-> swing_kdj_j]
        bearish == trend = "uptrend" /\ current_price > swing_price
        bullish == ~bearish /\ trend = "downtrend" /\ current_price < swing_price
        \* the three comparisons of the branch taken are unguarded
        typeError ==
            /\ bearish \/ bullish
            /\ \/ IsNone(current_rsi) \/ IsNone(swing_rsi)
               \/ IsNone(current_macd) \/ IsNone(swing_macd)
               \/ IsNone(current_kdj_j) \/ IsNone(swing_kdj_j)
        reasons ==
            IF bearish
            THEN (IF Val(current_rsi) < Val(swing_rsi)
                  THEN <<"Hidden bearish divergence: Price higher, RSI lower.">> ELSE <<>>)
                 \o (IF Val(current_macd) < Val(swing_macd)
                     THEN <<"Hidden bearish divergence: Price higher, MACD lower.">> ELSE <<>>)
                 \o (IF Val(current_kdj_j) < Val(swing_kdj_j)
                     THEN <<"Hidden bearish divergence: Price higher, KDJ J lower.">> ELSE <<>>)
            ELSE IF bullish
            THEN (IF Val(current_rsi) > Val(swing_rsi)
                  THEN <<"Hidden bullish divergence: Price lower, RSI higher.">> ELSE <<>>)
                 \o (IF Val(current_macd) > Val(swing_macd)
                     THEN <<"Hidden bullish divergence: Price lower, MACD higher.">> ELSE <<>>)
                 \o (IF Val(current_kdj_j) > Val(swing_kdj_j)
                     THEN <<"Hidden bullish divergence: Price lower, KDJ J higher.">> ELSE <<>>)
            ELSE <<>>
        signal ==
            IF bearish /\ HiddenConfirmed(reasons) THEN "sell"
            ELSE IF bullish /\ HiddenConfirmed(reasons) THEN "buy"
            ELSE "hold"
    IN  IF noSwing
        THEN Return(SignalModel(symbol, Hidden_get_name, "hold",
                        "No valid swing point for divergence comparison.", NoDetails), 3)
        ELSE IF attributeError THEN Raise("AttributeError", 3)
        ELSE IF typeError THEN Raise("TypeError", 3)
        ELSE Return(SignalModel(symbol, Hidden_get_name, signal,
                                ReasonText(reasons), details), 3)


-----------------------------------------------------------------------------
(* Inputs of the strategy calls: candle windows and provider results.      *)

Candle(close, high, low, volume) ==
    [close |-> close, high |-> high, low |-> low, volume |-> volume]

\* a candle whose high and low equal its close
Flat(close, volume) == Candle(close, close, close, volume)

\* a window of n candles: n - 2 times `fill`, then prev, then cur
Window(n, fill, prev, cur) ==
    [j \in 1..n |-> IF j = n THEN cur ELSE IF j = n - 1 THEN prev ELSE fill]

\* the symbol the strategy calls are made for
StrategySymbol == "AAPL"

\* RSI results (in hundredths of a point): empty, or <<value at earlier indices,
\* value at the last index>>
RsiRaws ==
    {<<>>} \cup {<<old, cur>> : old \in {None, Some(Rsi(28)), Some(Rsi(72))},
                                cur \in {None, Some(Rsi(29)), Some(Rsi(30)), Some(Rsi(70)), Some(Rsi(71))}}

\* MACD results: points are <<MACD line, signal line>>
MacdRaws ==
    {<<>>} \cup {<<old, cur>> :
                    old \in {<<Some(0), Some(0)>>, <<Some(1), Some(0)>>, <<Some(-1), Some(0)>>},
                    cur \in {<<Some(-1), Some(-2)>>, <<Some(0), Some(-1)>>,
                             <<Some(1), Some(2)>>, <<Some(0), Some(1)>>, <<None, None>>}}

\* stochastic results: points are <<K, D>>
StochRaws ==
    {<<>>} \cup {<<old, cur>> :
                    old \in {<<Some(50), Some(50)>>, <<Some(51), Some(50)>>,
                             <<Some(49), Some(50)>>},
                    cur \in {<<Some(19), Some(18)>>, <<Some(20), Some(19)>>,
                             <<Some(81), Some(82)>>, <<Some(80), Some(81)>>, <<None, None>>}}

\* RSI results of which only the last value varies
RsiLastRaws ==
    {<<>>} \cup {<<Some(Rsi(28)), cur>> :
                    cur \in {None, Some(Rsi(29)), Some(Rsi(30)), Some(Rsi(70)), Some(Rsi(71))}}

EmaRaws ==
    {<<>>} \cup {<<old, cur>> : old \in {None, Some(1), Some(2), Some(3)},
                                cur \in {None, Some(1), Some(3)}}

SmaRaws == {<<>>, <<Some(2), Some(2)>>, <<Some(2), None>>}

\* Bollinger results: points are <<upper band, lower band>>
BbRaws == {<<>>, <<<<Some(2), Some(2)>>, <<Some(2), Some(2)>>>>,
           <<<<Some(2), Some(2)>>, <<None, None>>>>}

Market(rsi, macd, stoch, ema, sma, bbands) ==
    [rsi |-> rsi, macd |-> macd, stoch |-> stoch, ema |-> ema, sma |-> sma,
     bbands |-> bbands]

\* a market on which every strategy with its default periods finds every condition
\* of a buy except those read from the candles
BullMarket ==
    Market(<<Some(Rsi(28)), Some(Rsi(29))>>,
           <<<<Some(0), Some(0)>>, <<Some(-1), Some(-2)>>>>,
           <<<<Some(50), Some(50)>>, <<Some(19), Some(18)>>>>,
           <<Some(1), Some(3)>>, <<Some(2), Some(2)>>,
           <<<<Some(2), Some(2)>>, <<Some(2), Some(2)>>>>)

\* its mirror image
BearMarket ==
    Market(<<Some(Rsi(72)), Some(Rsi(71))>>,
           <<<<Some(0), Some(0)>>, <<Some(1), Some(2)>>>>,
           <<<<Some(50), Some(50)>>, <<Some(81), Some(82)>>>>,
           <<Some(3), Some(1)>>, <<Some(2), Some(2)>>,
           <<<<Some(2), Some(2)>>, <<Some(2), Some(2)>>>>)

\* BullMarket with the MACD values of the last point missing
NoMacdMarket ==
    [BullMarket EXCEPT !.macd = <<<<Some(0), Some(0)>>, <<None, None>>>>]

\* every result empty
EmptyMarket == Market(<<>>, <<>>, <<>>, <<>>, <<>>, <<>>)

FewMarkets == {BullMarket, BearMarket, EmptyMarket}

\* volumes of (fill, prev, cur): the last volume_window + 1 volumes of a window are
\* fill ... fill, prev, cur
VolumeTails == {<<f, c>> : f \in {0, 10}, c \in {12, 13}}


\* --- Divergence: instances and windows

DivergenceCustom(data_provider) ==
    [DivergenceStrategy(data_provider) EXCEPT !.rsi_period = 7]

DivergenceMarkets ==
    {Market(r, m, k, <<>>, <<>>, <<>>) : r \in RsiRaws, m \in MacdRaws, k \in StochRaws}

DivergenceLengths == {0, 2, 3}

\* windows ending with closes 2, c and volumes 10, v
DivergenceWindow(n, c, v) == Window(n, Flat(2, 10), Flat(2, 10), Flat(c, v))

DivergenceInstances(n) ==
    {DivergenceStrategy(NoProvider)}
    \cup {DivergenceStrategy(Provider(m)) :
            m \in IF n < 3 THEN FewMarkets ELSE DivergenceMarkets \cup FewMarkets}
    \cup {DivergenceCustom(Provider(m)) : m \in FewMarkets}

\* --- Moving Average: instances and windows

MACustom(data_provider) ==
    [MAStrategy(data_provider) EXCEPT !.ema_period = 5, !.volume_window = 2]

MAMarkets ==
    {Market(r, m, <<>>, e, a, <<>>) :
        r \in RsiLastRaws, m \in MacdRaws, e \in EmaRaws, a \in SmaRaws}

MALengths == {0, 1, 5, 6}

\* windows whose volumes are f, ..., f, v
MAWindow(n, t) == Window(n, Flat(1, t[1]), Flat(1, t[1]), Flat(1, t[2]))

MAInstances ==
    {MAStrategy(NoProvider)}
    \cup {MAStrategy(Provider(m)) : m \in MAMarkets \cup FewMarkets}
    \cup {MACustom(Provider(m)) : m \in FewMarkets}

\* --- Bollinger Bands: instances and windows

BollingerCustom(data_provider) ==
    [BollingerBandStrategy(data_provider) EXCEPT
        !.bb_period = 3, !.rsi_period = 2, !.macd_fast = 2, !.macd_slow = 4,
        !.macd_signal = 2, !.kdj_fast_k_period = 2, !.volume_window = 2]

\* MACD and stochastic results for the two-point crossovers alone
CrossRaws ==
    {<<>>} \cup {<<old, cur>> :
                    old \in {<<Some(0), Some(0)>>, <<Some(1), Some(0)>>},
                    cur \in {<<Some(1), Some(0)>>, <<Some(0), Some(1)>>, <<None, None>>}}

BollingerMarkets ==
    {Market(r, m, k, <<>>, <<>>, b) :
        r \in RsiLastRaws, m \in CrossRaws, k \in CrossRaws, b \in BbRaws}

BollingerLengths == {5, 6, 27, 28, MaxCandles}

\* windows whose volumes are f, ..., f, v and whose last close is c
BollingerWindow(n, c, t) == Window(n, Flat(2, t[1]), Flat(2, t[1]), Flat(c, t[2]))

BollingerInstances(n) ==
    {BollingerBandStrategy(NoProvider), BollingerCustom(NoProvider)}
    \cup {BollingerBandStrategy(Provider(m)) :
            m \in IF n < 28 THEN FewMarkets ELSE BollingerMarkets \cup FewMarkets}
    \cup {BollingerCustom(Provider(m)) : m \in FewMarkets}

\* --- Hidden Divergence: instances and windows

HiddenConfigured(data_provider, ema_period, swing_window) ==
    [HiddenDivergenceStrategy(data_provider) EXCEPT
        !.ema_period = ema_period, !.swing_window = swing_window]

HiddenCandles ==
    {Candle(1, 2, 0, 10), Candle(2, 3, 1, 10), Candle(3, 4, 2, 10), Candle(2, 4, 0, 10)}

\* every window of n candles of HiddenCandles (of the first three for n > 4)
HiddenWindows(n) ==
    [1..n -> IF n > 4 THEN HiddenCandles \ {Candle(2, 4, 0, 10)} ELSE HiddenCandles]

HiddenRsiRaws ==
    {<<>>, <<Some(1), Some(2)>>, <<Some(2), Some(1)>>, <<Some(1), None>>}

HiddenMacdRaws ==
    {<<<<Some(1), Some(0)>>, <<Some(2), Some(0)>>>>,
     <<<<Some(2), Some(0)>>, <<Some(1), Some(0)>>>>,
     <<<<None, None>>, <<Some(1), Some(0)>>>>}

HiddenStochRaws ==
    {<<>>, <<<<Some(2), Some(2)>>, <<Some(3), Some(2)>>>>,
           <<<<Some(2), Some(2)>>, <<Some(1), Some(2)>>>>,
           <<<<Some(2), Some(2)>>, <<Some(0), Some(2)>>>>,
           <<<<Some(2), Some(0)>>, <<Some(2), Some(2)>>>>}

HiddenMarkets ==
    {Market(r, m, k, <<>>, <<>>, <<>>) :
        r \in HiddenRsiRaws, m \in HiddenMacdRaws, k \in HiddenStochRaws}

\* results whose values at the last three indices all differ, none missing
HiddenSwingMarkets ==
    {Market(r, m, k, <<>>, <<>>, <<>>) :
        r \in {<<Some(1), Some(2), Some(3)>>, <<Some(3), Some(2), Some(1)>>},
        m \in {<<<<Some(1), Some(0)>>, <<Some(2), Some(0)>>, <<Some(3), Some(0)>>>>,
               <<<<Some(3), Some(0)>>, <<Some(2), Some(0)>>, <<Some(1), Some(0)>>>>},
        k \in {<<<<Some(1), Some(1)>>, <<Some(2), Some(1)>>, <<Some(3), Some(1)>>>>,
               <<<<Some(3), Some(1)>>, <<Some(2), Some(1)>>, <<Some(1), Some(1)>>>>}}

\* <<ema_period, swing_window, window length>> of the calls made
HiddenShapes ==
    {<<1, 1, 2>>, <<1, 1, 3>>, <<1, 1, 4>>, <<3, 1, 3>>, <<3, 1, 4>>,
     <<4, 1, 3>>, <<4, 1, 4>>, <<3, 2, 5>>}

-----------------------------------------------------------------------------
(* StrategySpec: one generate_signal call of one strategy instance.        *)

StrategyInit ==
    /\ strategy = ""
    /\ self = NoProvider
    /\ candles = <<>>
    /\ outcome = [raised |-> FALSE, calls |-> 0]
    /\ again = [called |-> FALSE]
    /\ fn = ""
    /\ args = <<>>
    /\ result = <<>>

\* a call that detaches the provider from the instance it ran on
Called_detaches(name, this, cs, returned) ==
    /\ strategy' = name
    /\ self' = [this EXCEPT !.provider = NoProvider]
    /\ candles' = cs
    /\ outcome' = returned
    /\ UNCHANGED <<again, pureVars, runnerVars>>

\* a generate_signal call: the instance is left as it was (no assignment to self)
Called(name, this, cs, returned) ==
    /\ strategy' = name
    /\ self' = this
    /\ candles' = cs
    /\ outcome' = returned
    /\ UNCHANGED <<again, pureVars, runnerVars>>


-----------------------------------------------------------------------------
(* TradeBot and run_all_bots *)

\* the symbols run_all_bots may be called with: a prefix of this list
Universe == <<"AAPL", "MSFT", "NVDA", "GOOG", "AMZN">>

\* the lookback TradeBot.run asks get_price_data for: the most candles it gets
Lookback == 30

\* date.today().strftime("%Y-%m-%d"): the day of the run
today_str == "2025-01-02"

\* the strategies TradeBot.run builds, in its order, around one provider
BotStrategies(data_provider) ==
    <<DivergenceStrategy(data_provider), HiddenDivergenceStrategy(data_provider),
      MAStrategy(data_provider), BollingerBandStrategy(data_provider)>>

\* strategies[k].generate_signal(symbol, cs)
generate_signal(k, this, symbol, cs) ==
    CASE k = 1 -> Divergence_generate_signal(this, symbol, cs)
      [] k = 2 -> Hidden_generate_signal(this, symbol, cs)
      [] k = 3 -> MA_generate_signal(this, symbol, cs)
      [] k = 4 -> Bollinger_generate_signal(this, symbol, cs)

\* an aggregate_signals that keeps only the signals calling for a trade
aggregate_signals_actionable(signals) ==
    SelectSeq(signals, LAMBDA s : s.signal # "hold")

\* TradeBot.aggregate_signals
aggregate_signals(signals) == signals

\* what get_price_data can answer: a candle window and the indicator results the
\* provider will give for it
Scenarios ==
    {<<Window(MaxCandles, Flat(2, 10), Flat(2, 10), Flat(1, 13)), BullMarket>>,
     <<Window(MaxCandles, Flat(2, 10), Flat(2, 10), Flat(3, 13)), BearMarket>>,
     <<Window(MaxCandles, Flat(2, 10), Flat(2, 10), Flat(1, 13)), EmptyMarket>>,
     <<Window(MaxCandles, Flat(2, 10), Flat(2, 10), Flat(2, 13)), EmptyMarket>>,
     <<Window(2, Flat(2, 10), Flat(2, 10), Flat(1, 13)), BullMarket>>,
     <<Window(MaxCandles, Flat(2, 10), Flat(2, 10), Flat(1, 13)), NoMacdMarket>>}

\* the locals of a TradeBot.run that has not started, and the calls it made
NoRun ==
    [symbol |-> "", provider |-> NoProvider, candles |-> <<>>, signals |-> <<>>,
     fetches |-> 0, passed |-> <<>>, indicator_calls |-> <<>>, executed |-> <<>>,
     yielded |-> <<>>]

\* SummaryLine without the reason
SummaryLine_noreason(symbol, signal) ==
    "* *Symbol: " \o symbol \o ", Strategy: " \o signal.strategy
    \o ", Signal: " \o signal.signal \o "*\n"

\* one line of the summary, lines 61
SummaryLine(symbol, signal) ==
    "* *Symbol: " \o symbol \o ", Strategy: " \o signal.strategy
    \o ", Signal: " \o signal.signal \o ", Reason: " \o signal.reason \o "*\n"

RECURSIVE SignalLines(_, _)
\* the inner loop of lines 60-61 over one entry's signals
SignalLines(symbol, signals) ==
    IF Len(signals) = 0 THEN ""
    ELSE SummaryLine(symbol, Head(signals)) \o SignalLines(symbol, Tail(signals))

RECURSIVE EntryLines(_)
\* the outer loop of lines 57-61 over all_signals
EntryLines(entries) ==
    IF Len(entries) = 0 THEN ""
    ELSE SignalLines(Head(entries).symbol, Head(entries).signals)
         \o EntryLines(Tail(entries))

SummaryHeader ==
    "** :money_with_wings: Daily [" \o today_str \o "] Trade Signals Summary: **\n"

\* summary_message of lines 55-61
SummaryMessage(entries) == SummaryHeader \o EntryLines(entries)

RunnerInit ==
    /\ pc = "start"
    /\ bot = 1
    /\ symbols = <<>>
    /\ all_signals = <<>>
    /\ run = NoRun
    /\ log = <<>>
    /\ sent = <<>>

Init == StrategyInit /\ RunnerInit

\* run_all_bots is called with a list of symbols (lines 29-34)
Start ==
    /\ pc = "start"
    /\ \E n \in 1..MaxSymbols : symbols' = SubSeq(Universe, 1, n)
    /\ pc' = "loop"
    /\ UNCHANGED <<bot, all_signals, run, log, sent, stratVars>>

\* the loop head: the next bot starts its run (lines 35-38; bot.py 14-26)
StartBot ==
    /\ pc = "loop"
    /\ bot <= Len(symbols)
    /\ run' = [NoRun EXCEPT !.symbol = symbols[bot]]
    /\ log' = Append(log, <<"start", bot>>)
    /\ pc' = "fetch"
    /\ UNCHANGED <<bot, symbols, all_signals, sent, stratVars>>

\* data_provider.get_price_data returns a window (bot.py 30)
FetchCandles ==
    /\ pc = "fetch"
    /\ \E sc \in Scenarios :
          run' = [run EXCEPT !.candles = sc[1], !.provider = Provider(sc[2]),
                             !.fetches = @ + 1]
    /\ log' = Append(log, <<"fetch", bot>>)
    /\ pc' = "strategies"
    /\ UNCHANGED <<bot, symbols, all_signals, sent, stratVars>>

\* data_provider.get_price_data raises
FetchFails ==
    /\ pc = "fetch"
    /\ run' = [run EXCEPT !.fetches = @ + 1]
    /\ log' = Append(log, <<"fetch", bot>>) \o <<<<"raised", bot>>>>
    /\ pc' = "except"
    /\ UNCHANGED <<bot, symbols, all_signals, sent, stratVars>>

\* the next strategy of the list comprehension (bot.py 33)
RunStrategy ==
    /\ pc = "strategies"
    /\ LET k == Len(run.signals) + 1
           r == generate_signal(k, BotStrategies(run.provider)[k], run.symbol, run.candles)
       IN  IF r.raised
           THEN /\ run' = [run EXCEPT !.passed = Append(@, run.candles),
                                      !.indicator_calls = Append(@, r.calls)]
                /\ log' = Append(log, <<"raised", bot>>)
                /\ pc' = "except"
           ELSE /\ run' = [run EXCEPT !.passed = Append(@, run.candles),
                                      !.indicator_calls = Append(@, r.calls),
                                      !.signals = Append(@, r.model)]
                /\ log' = Append(log, <<"signal", bot, r.model>>)
                /\ pc' = IF k = Len(BotStrategies(run.provider)) THEN "execute"
                         ELSE "strategies"
    /\ UNCHANGED <<bot, symbols, all_signals, sent, stratVars>>

\* aggregate_signals, then executor.execute_trade returns (bot.py 34-36)
ExecuteTrade ==
    /\ pc = "execute"
    /\ run' = [run EXCEPT !.executed = Append(@, aggregate_signals(run.signals))]
    /\ log' = Append(log, <<"execute", bot>>)
    /\ pc' = "yield"
    /\ UNCHANGED <<bot, symbols, all_signals, sent, stratVars>>

\* a run that swallows the executor's exception and yields its list all the same
ExecuteFails_swallowed ==
    /\ pc = "execute"
    /\ run' = [run EXCEPT !.executed = Append(@, aggregate_signals(run.signals))]
    /\ log' = Append(log, <<"execute", bot>>) \o <<<<"raised", bot>>>>
    /\ pc' = "yield"
    /\ UNCHANGED <<bot, symbols, all_signals, sent, stratVars>>

\* executor.execute_trade raises
ExecuteFails ==
    /\ pc = "execute"
    /\ run' = [run EXCEPT !.executed = Append(@, aggregate_signals(run.signals))]
    /\ log' = Append(log, <<"execute", bot>>) \o <<<<"raised", bot>>>>
    /\ pc' = "except"
    /\ UNCHANGED <<bot, symbols, all_signals, sent, stratVars>>

\* the run yields its list and the loop body appends it (bot.py 38; lines 38-43)
Collect ==
    /\ pc = "yield"
    /\ LET final_signal_list == aggregate_signals(run.signals)
       IN  /\ run' = [run EXCEPT !.yielded = Append(@, final_signal_list)]
           /\ all_signals' = Append(all_signals,
                                [symbol |-> symbols[bot], signals |-> final_signal_list])
    /\ log' = Append(log, <<"collect", bot>>)
    /\ pc' = "sleep"
    /\ UNCHANGED <<bot, symbols, sent, stratVars>>

\* a loop without the except clause: the exception ends run_all_bots
HandleFailure_propagates ==
    /\ pc = "except"
    /\ log' = Append(log, <<"error", bot>>)
    /\ pc' = "done"
    /\ UNCHANGED <<bot, symbols, all_signals, run, sent, stratVars>>

\* an except clause that goes on to the next symbol without the delay
HandleFailure_nodelay ==
    /\ pc = "except"
    /\ log' = Append(log, <<"error", bot>>)
    /\ bot' = bot + 1
    /\ pc' = "loop"
    /\ UNCHANGED <<symbols, all_signals, run, sent, stratVars>>

\* the except clause of the loop body (lines 44-45)
HandleFailure ==
    /\ pc = "except"
    /\ log' = Append(log, <<"error", bot>>)
    /\ pc' = "sleep"
    /\ UNCHANGED <<bot, symbols, all_signals, run, sent, stratVars>>

\* await asyncio.sleep(5), then the next iteration (line 46)
Sleep ==
    /\ pc = "sleep"
    /\ log' = Append(log, <<"sleep", bot>>)
    /\ bot' = bot + 1
    /\ pc' = "loop"
    /\ UNCHANGED <<symbols, all_signals, run, sent, stratVars>>

\* run_all_bots without the "if not all_signals" test: the header alone is sent
SkipNotification_sends ==
    /\ pc = "loop"
    /\ bot > Len(symbols)
    /\ all_signals = <<>>
    /\ sent' = Append(sent, SummaryMessage(all_signals))
    /\ log' = Append(log, <<"send", 0>>)
    /\ pc' = "done"
    /\ UNCHANGED <<bot, symbols, all_signals, run, stratVars>>

\* the loop is over and nothing was collected (lines 48-53)
SkipNotification ==
    /\ pc = "loop"
    /\ bot > Len(symbols)
    /\ all_signals = <<>>
    /\ pc' = "done"
    /\ UNCHANGED <<bot, symbols, all_signals, run, log, sent, stratVars>>

\* the summary is composed and discord_notifier.send returns (lines 55-65)
SendSummary ==
    /\ pc = "loop"
    /\ bot > Len(symbols)
    /\ all_signals # <<>>
    /\ sent' = Append(sent, SummaryMessage(all_signals))
    /\ log' = Append(log, <<"send", 0>>)
    /\ pc' = "done"
    /\ UNCHANGED <<bot, symbols, all_signals, run, stratVars>>

\* a send without the try/except: the notifier's exception ends run_all_bots
SendFails_propagates ==
    /\ pc = "loop"
    /\ bot > Len(symbols)
    /\ all_signals # <<>>
    /\ sent' = Append(sent, SummaryMessage(all_signals))
    /\ log' = Append(log, <<"send", 0>>) \o <<<<"send_error", 0>>>>
    /\ pc' = "raised"
    /\ UNCHANGED <<bot, symbols, all_signals, run, stratVars>>

\* discord_notifier.send raises and the error is printed (lines 64-67)
SendFails ==
    /\ pc = "loop"
    /\ bot > Len(symbols)
    /\ all_signals # <<>>
    /\ sent' = Append(sent, SummaryMessage(all_signals))
    /\ log' = Append(log, <<"send", 0>>) \o <<<<"send_error", 0>>>>
    /\ pc' = "done"
    /\ UNCHANGED <<bot, symbols, all_signals, run, stratVars>>

Next ==
    \/ Start \/ StartBot \/ FetchCandles \/ FetchFails \/ RunStrategy
    \/ ExecuteTrade \/ ExecuteFails \/ Collect \/ HandleFailure \/ Sleep
    \/ SkipNotification \/ SendSummary \/ SendFails

Spec == Init /\ [][Next]_vars

-----------------------------------------------------------------------------
(* The strategy calls *)

GenerateDivergence ==
    /\ strategy = ""
    /\ \E n \in DivergenceLengths, c \in 1..3, v \in {11, 12, 13} :
            \E this \in DivergenceInstances(n) :
                LET cs == DivergenceWindow(n, c, v)
                IN  Called(Divergence_get_name, this, cs,
                           Divergence_generate_signal(this, StrategySymbol, cs))

GenerateMA ==
    /\ strategy = ""
    /\ \E n \in MALengths, t \in VolumeTails, this \in MAInstances :
            LET cs == MAWindow(n, t)
            IN  Called(MA_get_name, this, cs, MA_generate_signal(this, StrategySymbol, cs))

GenerateBollinger ==
    /\ strategy = ""
    /\ \E n \in BollingerLengths, c \in 1..3, t \in VolumeTails :
            \E this \in BollingerInstances(n) :
                LET cs == BollingerWindow(n, c, t)
                IN  Called(Bollinger_get_name, this, cs,
                           Bollinger_generate_signal(this, StrategySymbol, cs))

GenerateHidden ==
    /\ strategy = ""
    /\ \E shape \in HiddenShapes :
            \E cs \in HiddenWindows(shape[3]),
               p \in {NoProvider} \cup {Provider(m) : m \in HiddenMarkets} :
                LET this == HiddenConfigured(p, shape[1], shape[2])
                IN  Called(Hidden_get_name, this, cs,
                           Hidden_generate_signal(this, StrategySymbol, cs))

\* windows of 4 and 5 candles, whose swing points lie at several indices
GenerateHiddenSwings ==
    /\ strategy = ""
    /\ \E n \in {4, 5}, ema_period \in {1, 3}, m \in HiddenSwingMarkets :
            \E cs \in HiddenWindows(n) :
                LET this == HiddenConfigured(Provider(m), ema_period, 1)
                IN  Called(Hidden_get_name, this, cs,
                           Hidden_generate_signal(this, StrategySymbol, cs))

\* the default instance on the longest window: fewer candles than its ema_period
GenerateHiddenDefault ==
    /\ strategy = ""
    /\ \E c \in 1..3, m \in FewMarkets :
            LET this == HiddenDivergenceStrategy(Provider(m))
                cs == Window(MaxCandles, Flat(2, 10), Flat(2, 10), Flat(c, 10))
            IN  Called(Hidden_get_name, this, cs,
                       Hidden_generate_signal(this, StrategySymbol, cs))

\* closes 223, 220, 215 with RSI 25, 28 and a last value around the level 30
GenerateDivergenceBoundary ==
    /\ strategy = ""
    /\ \E v \in {11, 12},
          last \in {Some(2799), Some(2800), Some(2801), Some(2999), Some(3000), Some(3001)},
          m \in {<<>>, BullMarket.macd}, k \in {<<>>, BullMarket.stoch} :
            LET cs == <<Flat(223, 10), Flat(220, 10), Flat(215, v)>>
                rsi == <<Some(Rsi(25)), Some(Rsi(28)), last>>
                this == DivergenceStrategy(Provider(Market(rsi, m, k, <<>>, <<>>, <<>>)))
            IN  Called(Divergence_get_name, this, cs,
                       Divergence_generate_signal(this, StrategySymbol, cs))

StrategyNext ==
    \/ GenerateDivergence \/ GenerateDivergenceBoundary \/ GenerateMA
    \/ GenerateBollinger \/ GenerateHidden \/ GenerateHiddenSwings
    \/ GenerateHiddenDefault

StrategySpec == Init /\ [][StrategyNext]_vars

-----------------------------------------------------------------------------
(* TwiceSpec: generate_signal called a second time on the same instance,   *)
(* with the same symbol and candles and the same provider results.         *)

\* position of the strategy named `name` among the strategies of a bot
StrategyIndex(name) ==
    CASE name = Divergence_get_name -> 1
      [] name = Hidden_get_name -> 2
      [] name = MA_get_name -> 3
      [] name = Bollinger_get_name -> 4

GenerateAgain ==
    /\ strategy # ""
    /\ ~again.called
    /\ again' = [called |-> TRUE,
                 outcome |-> generate_signal(StrategyIndex(strategy), self,
                                             StrategySymbol, candles)]
    /\ UNCHANGED <<strategy, self, candles, outcome, pureVars, runnerVars>>

TwiceNext ==
    \/ GenerateDivergence \/ GenerateDivergenceBoundary \/ GenerateMA
    \/ GenerateBollinger \/ GenerateHidden \/ GenerateHiddenSwings
    \/ GenerateHiddenDefault \/ GenerateAgain
TwiceSpec == Init /\ [][TwiceNext]_vars

-----------------------------------------------------------------------------
(* PureSpec: one call of a helper method of HiddenDivergenceStrategy.      *)

EmaPrices == {10, 20, 30, 40}

\* calculate_ema(prices, period) on a list of closes
CallCalculateEma ==
    /\ fn = ""
    /\ \E n \in 0..MaxPrices, period \in 1..MaxPeriod :
         \E prices \in [1..n -> EmaPrices] :
            /\ fn' = "calculate_ema"
            /\ args' = [prices |-> prices, period |-> period]
            /\ result' = calculate_ema(prices, period)
    /\ UNCHANGED <<callVars, runnerVars>>

\* detect_swing_points(data, window) on a list of candles
CallDetectSwingPoints ==
    /\ fn = ""
    /\ \E n \in 0..MaxSwingData, window \in 1..MaxSwingWindow :
         \E data \in [1..n -> HiddenCandles] :
            /\ fn' = "detect_swing_points"
            /\ args' = [data |-> data, window |-> window]
            /\ result' = detect_swing_points(data, window)
    /\ UNCHANGED <<callVars, runnerVars>>

PureNext == CallCalculateEma \/ CallDetectSwingPoints
PureSpec == Init /\ [][PureNext]_vars

\* the calls of one strategy alone
DivergenceNext == GenerateDivergence \/ GenerateDivergenceBoundary
DivergenceSpec == Init /\ [][DivergenceNext]_vars
MASpec == Init /\ [][GenerateMA]_vars
BollingerSpec == Init /\ [][GenerateBollinger]_vars
HiddenNext == GenerateHidden \/ GenerateHiddenSwings \/ GenerateHiddenDefault
HiddenSpec == Init /\ [][HiddenNext]_vars


-----------------------------------------------------------------------------
(* Properties of the strategy calls (StrategySpec) *)

Returned == strategy # "" /\ ~outcome.raised

\* the instance was built with the default periods, whose field names the
\* strategies read
DefaultPeriods ==
    CASE strategy = Divergence_get_name -> self = DivergenceStrategy(self.provider)
      [] strategy = Hidden_get_name ->
            self = HiddenConfigured(self.provider, self.ema_period, self.swing_window)
      [] strategy = MA_get_name -> self = MAStrategy(self.provider)
      [] strategy = Bollinger_get_name -> self = BollingerBandStrategy(self.provider)
      [] OTHER -> FALSE

\* C1: whenever generate_signal of any of the four strategies returns, the
\* SignalModel's signal is one of "buy", "sell", "hold".
C1_SignalIsBuySellHold ==
    Returned => outcome.model.signal \in {"buy", "sell", "hold"}

\* a Moving Average call that returned buy
C1_Witness ==
    Returned /\ strategy = MA_get_name /\ outcome.model.signal = "buy"

\* the minimum candle count the claim C2 states for the strategy called
C2_Minimum ==
    CASE strategy = "Divergence" -> 3
      [] strategy = "Hidden Divergence" -> IF self.ema_period > 3 THEN self.ema_period ELSE 3
      [] strategy = "Bollinger Bands" ->
            LET periods == {self.bb_period, self.rsi_period, self.macd_slow,
                            self.kdj_fast_k_period, self.volume_window}
            IN  (CHOOSE m \in periods : \A x \in periods : m >= x) + 2
      [] OTHER -> 0

\* C2: with fewer candles than the strategy's minimum (Divergence 3, Hidden
\* Divergence max(ema_period, 3), Bollinger Bands max of its periods + 2) the call
\* returns hold and has made no get_indicator call.
C2_BelowMinimumHoldsWithoutCalls ==
    (strategy # "" /\ Len(candles) < C2_Minimum)
        => /\ ~outcome.raised
           /\ outcome.model.signal = "hold"
           /\ outcome.calls = 0

\* a Bollinger Bands instance with a provider, called one candle short of its minimum
C2_Witness ==
    /\ strategy = "Bollinger Bands"
    /\ self.provider.present
    /\ Len(candles) = C2_Minimum - 1
    /\ ~outcome.raised
    /\ outcome.calls = 0

\* C3 (as claimed): generate_signal never raises; with an empty series or a missing
\* value (the fields read being those the provider names) a SignalModel is returned.
C3_NeverRaises ==
    (strategy # "" /\ DefaultPeriods) => ~outcome.raised


-----------------------------------------------------------------------------
(* Properties of run_all_bots and TradeBot.run (Spec) *)

\* what the log tells of the i-th symbol
Logged(what, i) == \E j \in DOMAIN log : log[j] = <<what, i>>
Evaluated(i) == Logged("start", i)
Failed(i) == Logged("raised", i)
Processed(i) == Logged("sleep", i)

\* the SignalModels the strategies returned for the i-th symbol, in the order returned
Produced(i) ==
    LET events == SelectSeq(log, LAMBDA e : e[1] = "signal" /\ e[2] = i)
    IN  [k \in 1..Len(events) |-> events[k][3]]

\* the groups of all_signals that belong to a symbol
GroupsOf(symbol) == {j \in DOMAIN all_signals : all_signals[j].symbol = symbol}

FailedSymbols == {i \in DOMAIN symbols : Failed(i)}

\* C4: when run_all_bots is over, every symbol was evaluated, a symbol whose
\* evaluation raised has no group in all_signals and every other symbol has one;
\* so three symbols with the second failing leave exactly two groups.
C4_FailureCostsOnlyItsSymbol ==
    pc = "done" =>
        /\ \A i \in DOMAIN symbols :
              /\ Evaluated(i)
              /\ Cardinality(GroupsOf(symbols[i])) = IF Failed(i) THEN 0 ELSE 1
        /\ Len(all_signals) = Len(symbols) - Cardinality(FailedSymbols)

\* three symbols, the second failed, two groups collected
C4_Witness ==
    /\ pc = "done"
    /\ Len(symbols) = 3
    /\ FailedSymbols = {2}
    /\ Len(all_signals) = 2
    /\ GroupsOf(symbols[1]) # {} /\ GroupsOf(symbols[3]) # {}

\* C5: send is invoked at most once, only after every symbol has been processed
\* and with something collected; a finished run has invoked it exactly once if
\* some symbol contributed and never if none did.
C5_OneSendAfterTheLoop ==
    /\ Len(sent) <= 1
    /\ sent # <<>> =>
          /\ \A i \in DOMAIN symbols : Processed(i)
          /\ \E i \in DOMAIN symbols : ~Failed(i)
    /\ pc = "done" =>
          (Len(sent) = 1 <=> \E i \in DOMAIN symbols : ~Failed(i))

\* a finished run over three symbols, one of them failed, that sent once
C5_Witness ==
    /\ pc = "done"
    /\ Len(symbols) = 3
    /\ Cardinality(FailedSymbols) = 1
    /\ Len(sent) = 1

\* the names of TradeBot's strategies in their configured order (bot.py 20-26)
ConfiguredOrder ==
    <<"Divergence", "Hidden Divergence", "Moving Average", "Bollinger Bands">>

\* the SignalModel the named strategy returned for the i-th symbol
ProducedBy(i, name) ==
    LET j == CHOOSE j \in DOMAIN log :
                 log[j][1] = "signal" /\ log[j][2] = i /\ log[j][3].strategy = name
    IN  log[j][3]

\* the line the digest owes to one SignalModel
DigestLine(m) ==
    "* *Symbol: " \o m.symbol \o ", Strategy: " \o m.strategy \o ", Signal: "
    \o m.signal \o ", Reason: " \o m.reason \o "*\n"

RECURSIVE DigestLinesOf(_, _)
\* the lines of the i-th symbol from the k-th strategy on
DigestLinesOf(i, k) ==
    IF k > Len(ConfiguredOrder) \/ Failed(i) THEN ""
    ELSE DigestLine(ProducedBy(i, ConfiguredOrder[k])) \o DigestLinesOf(i, k + 1)

RECURSIVE DigestFrom(_)
\* the lines of the symbols from the i-th on
DigestFrom(i) ==
    IF i > Len(symbols) THEN ""
    ELSE DigestLinesOf(i, 1) \o DigestFrom(i + 1)

\* C6: the digest sent is the header followed by exactly one line per SignalModel
\* of the symbols that did not fail, in symbol order then strategy order, each
\* line carrying the SignalModel's symbol, strategy, signal and reason.
C6_DigestListsCollectedSignals ==
    sent # <<>> =>
        sent[1] = "** :money_with_wings: Daily [" \o today_str
                  \o "] Trade Signals Summary: **\n" \o DigestFrom(1)

\* a digest sent for three symbols of which the second failed
C6_Witness ==
    /\ Len(sent) = 1
    /\ Len(symbols) = 3
    /\ FailedSymbols = {2}
    /\ \E k \in 1..4 : Produced(3)[k].signal = "sell"

\* C7: a TradeBot.run fetches the candles once, hands the fetched list to every
\* strategy, and the list of SignalModels, one per strategy in the configured
\* order, is what execute_trade receives and what the run yields.
C7_RunPipeline ==
    /\ run.fetches <= 1
    /\ \A j \in DOMAIN run.passed : run.fetches = 1 /\ run.passed[j] = run.candles
    /\ Len(run.executed) <= 1
    /\ Len(run.yielded) <= 1
    /\ run.executed # <<>> =>
          /\ Len(run.passed) = Len(ConfiguredOrder)
          /\ Len(run.executed[1]) = Len(ConfiguredOrder)
          /\ \A k \in DOMAIN ConfiguredOrder :
                /\ run.executed[1][k].strategy = ConfiguredOrder[k]
                /\ run.executed[1][k].symbol = run.symbol
          /\ \E i \in DOMAIN symbols :
                symbols[i] = run.symbol /\ run.executed[1] = Produced(i)
    /\ run.yielded # <<>> =>
          /\ run.executed # <<>>
          /\ run.yielded[1] = run.executed[1]

\* a run that yielded a list holding a buy and a hold
C7_Witness ==
    /\ run.yielded # <<>>
    /\ run.fetches = 1
    /\ \E k \in 1..4 : run.yielded[1][k].signal = "buy"
    /\ \E k \in 1..4 : run.yielded[1][k].signal = "hold"


-----------------------------------------------------------------------------
(* The conditions of the strategies, read from what the call was given:    *)
(* the candles and the results the provider holds for them.                *)

Emits(signal) == Returned /\ outcome.model.signal = signal

\* the provider gives at least k points of the indicator for the candles
HasPoints(indicator, k) ==
    /\ self.provider.present
    /\ self.provider.market[indicator] # <<>>
    /\ Len(candles) >= k

\* the indicator's result at the previous and at the current candle
Previous(indicator) ==
    self.provider.market[indicator][Len(self.provider.market[indicator]) - 1]
Current(indicator) ==
    self.provider.market[indicator][Len(self.provider.market[indicator])]

Known(value) == value # None

\* line `a` is at or below (above) line `b` at the previous point and strictly
\* above (below) it at the current point, all four values known
CrossesUp(prev_a, prev_b, cur_a, cur_b) ==
    /\ Known(prev_a) /\ Known(prev_b) /\ Known(cur_a) /\ Known(cur_b)
    /\ Val(prev_a) <= Val(prev_b) /\ Val(cur_a) > Val(cur_b)
CrossesDown(prev_a, prev_b, cur_a, cur_b) ==
    /\ Known(prev_a) /\ Known(prev_b) /\ Known(cur_a) /\ Known(cur_b)
    /\ Val(prev_a) >= Val(prev_b) /\ Val(cur_a) < Val(cur_b)

\* two-point crossovers of a two-line indicator ("macd": line over signal;
\* "stoch": K over D)
BullishCrossover(indicator) ==
    /\ HasPoints(indicator, 2)
    /\ CrossesUp(Previous(indicator)[1], Previous(indicator)[2],
                 Current(indicator)[1], Current(indicator)[2])
BearishCrossover(indicator) ==
    /\ HasPoints(indicator, 2)
    /\ CrossesDown(Previous(indicator)[1], Previous(indicator)[2],
                   Current(indicator)[1], Current(indicator)[2])

\* EMA strictly below (above) SMA at the previous point, strictly above (below) now
EmaCrossesAboveSma ==
    /\ HasPoints("ema", 2) /\ HasPoints("sma", 2)
    /\ Known(Previous("ema")) /\ Known(Previous("sma"))
    /\ Known(Current("ema")) /\ Known(Current("sma"))
    /\ Val(Previous("ema")) < Val(Previous("sma"))
    /\ Val(Current("ema")) > Val(Current("sma"))
EmaCrossesBelowSma ==
    /\ HasPoints("ema", 2) /\ HasPoints("sma", 2)
    /\ Known(Previous("ema")) /\ Known(Previous("sma"))
    /\ Known(Current("ema")) /\ Known(Current("sma"))
    /\ Val(Previous("ema")) > Val(Previous("sma"))
    /\ Val(Current("ema")) < Val(Current("sma"))

RsiBelow(level) ==
    HasPoints("rsi", 1) /\ Known(Current("rsi")) /\ Val(Current("rsi")) < Rsi(level)
RsiAbove(level) ==
    HasPoints("rsi", 1) /\ Known(Current("rsi")) /\ Val(Current("rsi")) > Rsi(level)

\* the sum of the volume_window volumes preceding the current candle
PrecedingVolumes ==
    LET n == Len(candles)
        w == self.volume_window
    IN  Sum([j \in 1..w |-> candles[n - w - 1 + j].volume])

\* current volume > 1.2 x the mean of the preceding volume_window volumes
VolumeAboveTrailingMean ==
    /\ Len(candles) >= self.volume_window + 1
    /\ 10 * candles[Len(candles)].volume * self.volume_window > 12 * PrecedingVolumes

\* C8 (as claimed): Moving Average emits buy exactly when EMA crosses strictly
\* above SMA, MACD crosses bullish, RSI < 30 and the volume exceeds 1.2 x the
\* trailing mean; sell exactly when the mirrored four hold (RSI > 70); and hold
\* in every other case.
C8_MAConjunction ==
    (strategy = "Moving Average" /\ DefaultPeriods) =>
        LET buy == /\ EmaCrossesAboveSma /\ BullishCrossover("macd")
                   /\ RsiBelow(30) /\ VolumeAboveTrailingMean
            sell == /\ EmaCrossesBelowSma /\ BearishCrossover("macd")
                    /\ RsiAbove(70) /\ VolumeAboveTrailingMean
        IN  /\ Emits("buy") <=> buy
            /\ Emits("sell") <=> sell
            /\ (~buy /\ ~sell) => Emits("hold")

\* the label the hold branch of Bollinger Bands records for a condition
Recorded(label) ==
    /\ \E j \in DOMAIN outcome.model.details.reasons :
            outcome.model.details.reasons[j] = label
    /\ outcome.model.reason = Join("; ", outcome.model.details.reasons)

\* the volume-spike flag: the volume exceeds 1.2 x a non-zero trailing mean
VolumeSpikeFlag == VolumeAboveTrailingMean /\ PrecedingVolumes # 0

CloseBelowLowerBand ==
    /\ HasPoints("bbands", 1) /\ Known(Current("bbands")[2])
    /\ candles[Len(candles)].close < Val(Current("bbands")[2])
CloseAboveUpperBand ==
    /\ HasPoints("bbands", 1) /\ Known(Current("bbands")[1])
    /\ candles[Len(candles)].close > Val(Current("bbands")[1])

\* C9: a Bollinger Bands call with its default periods and enough candles
\* returns; it emits buy only when the close is below the lower band, RSI < 30,
\* MACD and stochastic cross bullish and the volume-spike flag is set, sell only
\* when the mirrored five hold; when neither conjunction holds the signal is
\* hold and the reason records every one of the conditions that held.
C9_BollingerConjunction ==
    (strategy = "Bollinger Bands" /\ DefaultPeriods /\ self.provider.present
     /\ Len(candles) >= C2_Minimum) =>
        LET buy == /\ CloseBelowLowerBand /\ RsiBelow(30) /\ BullishCrossover("macd")
                   /\ BullishCrossover("stoch") /\ VolumeSpikeFlag
            sell == /\ CloseAboveUpperBand /\ RsiAbove(70) /\ BearishCrossover("macd")
                    /\ BearishCrossover("stoch") /\ VolumeSpikeFlag
        IN  /\ Returned
            /\ Emits("buy") => buy
            /\ Emits("sell") => sell
            /\ (~buy /\ ~sell) =>
                  /\ Emits("hold")
                  /\ CloseBelowLowerBand => Recorded("Price below BB lower")
                  /\ CloseAboveUpperBand => Recorded("Price above BB upper")
                  /\ RsiBelow(30) => Recorded("RSI oversold")
                  /\ RsiAbove(70) => Recorded("RSI overbought")
                  /\ BullishCrossover("macd") => Recorded("MACD bullish cross")
                  /\ BearishCrossover("macd") => Recorded("MACD bearish cross")
                  /\ BullishCrossover("stoch") => Recorded("KDJ bullish cross")
                  /\ BearishCrossover("stoch") => Recorded("KDJ bearish cross")
                  /\ VolumeSpikeFlag => Recorded("Volume spike")

\* a hold that lacks only the stochastic crossover of a buy and records the
\* four conditions that held
C9_Witness ==
    /\ strategy = "Bollinger Bands" /\ DefaultPeriods
    /\ Emits("hold")
    /\ CloseBelowLowerBand /\ RsiBelow(30) /\ BullishCrossover("macd") /\ VolumeSpikeFlag
    /\ ~BullishCrossover("stoch")
    /\ outcome.model.reason
         = "Price below BB lower; RSI oversold; MACD bullish cross; Volume spike"

\* the bullish confirmations of Divergence that hold
BullishConfirmations ==
    {c \in {"rsi", "macd", "stoch"} :
        CASE c = "rsi" ->
                /\ HasPoints("rsi", 2)
                /\ Known(Previous("rsi")) /\ Known(Current("rsi"))
                /\ Val(Current("rsi")) > Val(Previous("rsi"))
                /\ Val(Current("rsi")) < Rsi(30)
          [] c = "macd" -> BullishCrossover("macd") /\ Val(Current("macd")[1]) < 0
          [] c = "stoch" -> BullishCrossover("stoch") /\ Val(Current("stoch")[1]) < 20}

\* C10 (as claimed): Divergence, given a provider and at least 3 candles, emits
\* buy exactly when the close fell, at least 2 of the 3 bullish confirmations
\* hold and the volume is at least 1.2 x the previous volume; with at least 2
\* confirmations and a volume below that gate it emits hold.
C10_DivergenceBuy ==
    (strategy = "Divergence" /\ DefaultPeriods /\ self.provider.present
     /\ Len(candles) >= 3) =>
        LET n == Len(candles)
            falling == candles[n].close < candles[n - 1].close
            confirmed == Cardinality(BullishConfirmations) >= 2
            gate == 10 * candles[n].volume >= 12 * candles[n - 1].volume
        IN  /\ Emits("buy") <=> (falling /\ confirmed /\ gate)
            /\ (falling /\ confirmed /\ ~gate) => Emits("hold")


\* the bearish confirmations of Divergence that hold
BearishConfirmations ==
    {c \in {"rsi", "macd", "stoch"} :
        CASE c = "rsi" ->
                /\ HasPoints("rsi", 2)
                /\ Known(Previous("rsi")) /\ Known(Current("rsi"))
                /\ Val(Current("rsi")) < Val(Previous("rsi"))
                /\ Val(Current("rsi")) > Rsi(70)
          [] c = "macd" -> BearishCrossover("macd") /\ Val(Current("macd")[1]) > 0
          [] c = "stoch" -> BearishCrossover("stoch") /\ Val(Current("stoch")[1]) > 80}

\* C11 (as claimed): Divergence, given a provider and at least 3 candles, emits
\* sell exactly when the close rose and at least 2 of the 3 bearish
\* confirmations hold, whatever the volumes; with equal closes, or a risen close
\* and fewer than 2 confirmations, it emits hold.
C11_DivergenceSell ==
    (strategy = "Divergence" /\ DefaultPeriods /\ self.provider.present
     /\ Len(candles) >= 3) =>
        LET n == Len(candles)
            rising == candles[n].close > candles[n - 1].close
            level == candles[n].close = candles[n - 1].close
            confirmed == Cardinality(BearishConfirmations) >= 2
        IN  /\ Emits("sell") <=> (rising /\ confirmed)
            /\ level => Emits("hold")
            /\ (rising /\ ~confirmed) => Emits("hold")


\* the reasons of a Divergence call that list the bullish RSI sub-condition
RsiCountedReasons ==
    {"Bullish RSI divergence",
     "Bullish RSI divergence; Bullish MACD cross-over",
     "Bullish RSI divergence; Bullish KDJ cross-over",
     "Bullish RSI divergence; Bullish MACD cross-over; Bullish KDJ cross-over"}

\* C12: in a Divergence call on a fallen close the bullish RSI sub-condition is
\* counted exactly when the current RSI is above the previous one and strictly
\* below 30: after 25, 28 a current RSI of 29.99 counts and one of 30.00 does not.
C12_RsiBoundary ==
    (strategy = "Divergence" /\ DefaultPeriods /\ self.provider.present
     /\ Len(candles) >= 3
     /\ candles[Len(candles)].close < candles[Len(candles) - 1].close
     /\ HasPoints("rsi", 2) /\ Known(Previous("rsi")) /\ Known(Current("rsi"))) =>
        LET counted == Returned /\ outcome.model.reason \in RsiCountedReasons
        IN  /\ counted <=> /\ Val(Current("rsi")) > Val(Previous("rsi"))
                           /\ Val(Current("rsi")) < 3000
            /\ self.provider.market.rsi = <<{2500}, {2800}, {2999}>> => counted
            /\ self.provider.market.rsi = <<{2500}, {2800}, {3000}>> => ~counted

\* closes 223, 220, 215 with RSI 25, 28, 29.99: the sub-condition is counted
C12_Witness ==
    /\ strategy = "Divergence"
    /\ Returned
    /\ candles = <<Flat(223, 10), Flat(220, 10), Flat(215, 12)>>
    /\ self.provider.market.rsi = <<{2500}, {2800}, {2999}>>
    /\ outcome.model.reason \in RsiCountedReasons


-----------------------------------------------------------------------------
(* Properties of the helper methods (PureSpec) *)

\* the list entry e is the number v
IsNumber(e, v) == ~IsNone(e) /\ Val(e)[1] = v * Val(e)[2]

\* C13: calculate_ema returns a list as long as prices; its first period-1
\* entries are undefined, the entry at index period-1 is the mean of the first
\* period prices, every later entry is (price - previous) * 2/(period+1) +
\* previous; period 3 on [10, 20, 30, 40] gives [undefined, undefined, 20, 30].
C13_EmaWarmUpAndRecursion ==
    fn = "calculate_ema" =>
        LET prices == args.prices
            period == args.period
            ema == result
        IN  /\ Len(ema) = Len(prices)
            /\ \A i \in 0..(Len(prices) - 1) :
                /\ i < period - 1 => IsNone(Py(ema, i))
                /\ i = period - 1 =>
                     /\ ~IsNone(Py(ema, i))
                     \* ema[i] = (prices[0] + ... + prices[period-1]) / period
                     /\ Val(Py(ema, i))[1] * period
                          = Val(Py(ema, i))[2] * Sum(SubSeq(prices, 1, period))
                /\ i > period - 1 =>
                     /\ ~IsNone(Py(ema, i)) /\ ~IsNone(Py(ema, i - 1))
                     \* ema[i] = (prices[i] - ema[i-1]) * 2 / (period + 1) + ema[i-1]
                     /\ LET cur == Val(Py(ema, i))
                            prev == Val(Py(ema, i - 1))
                        IN  cur[1] * prev[2] * (period + 1)
                              = cur[2] * (2 * (Py(prices, i) * prev[2] - prev[1])
                                          + prev[1] * (period + 1))
            /\ (prices = <<10, 20, 30, 40>> /\ period = 3) =>
                 /\ Len(ema) = 4
                 /\ IsNone(ema[1]) /\ IsNone(ema[2])
                 /\ IsNumber(ema[3], 20) /\ IsNumber(ema[4], 30)

\* period 3 on closes 10, 20, 30, 40: warm-up, mean and one recursion step
C13_Witness ==
    /\ fn = "calculate_ema"
    /\ args = [prices |-> <<10, 20, 30, 40>>, period |-> 3]
    /\ Len(result) = 4
    /\ IsNumber(result[4], 30)

\* the members of a list
Members(list) == {list[k] : k \in DOMAIN list}

\* a list in strictly ascending order
Ascending(list) == \A k \in DOMAIN list : k > 1 => list[k - 1] < list[k]

\* C20: detect_swing_points returns as swing highs exactly the indices i,
\* window <= i <= len(data)-window-1, whose high is strictly above the high at
\* every distance 1..window on both sides, as swing lows exactly those whose
\* low is strictly below, both lists in ascending order.
C20_SwingPoints ==
    fn = "detect_swing_points" =>
        LET data == args.data
            window == args.window
            inner == {i \in 0..(Len(data) - 1) : window <= i /\ i <= Len(data) - window - 1}
            highs == {i \in inner : \A j \in 1..window :
                        /\ data[i + 1].high > data[i + 1 - j].high
                        /\ data[i + 1].high > data[i + 1 + j].high}
            lows == {i \in inner : \A j \in 1..window :
                        /\ data[i + 1].low < data[i + 1 - j].low
                        /\ data[i + 1].low < data[i + 1 + j].low}
        IN  /\ Members(result[1]) = highs
            /\ Members(result[2]) = lows
            /\ Ascending(result[1])
            /\ Ascending(result[2])

\* window 1 on five candles: two swing highs, a swing low between them, and
\* two equal neighbouring highs elsewhere that are no swing high
C20_Witness ==
    /\ fn = "detect_swing_points"
    /\ args.window = 1
    /\ result[1] = <<1, 3>>
    /\ result[2] = <<2>>


-----------------------------------------------------------------------------
(* Properties of Hidden Divergence (HiddenSpec) *)

\* the provider's raw point of the indicator at Python index i of the candles,
\* None where the provider gives no result
PointAt(indicator, i) ==
    LET raw == self.provider.market[indicator]
        n == Len(candles)
    IN  IF raw = <<>> THEN None
        ELSE IF i = n - 1 THEN raw[Len(raw)]
        ELSE IF i = n - 2 THEN raw[Len(raw) - 1]
        ELSE raw[1]

\* RSI, MACD line and J = 3K - 2D at index i, None where a value is missing
RsiAt(i) == PointAt("rsi", i)
MacdAt(i) ==
    IF self.provider.market.macd = <<>> THEN None ELSE PointAt("macd", i)[1]
JAt(i) ==
    LET point == PointAt("stoch", i)
    IN  IF self.provider.market.stoch = <<>> THEN None
        ELSE IF point[1] = None \/ point[2] = None THEN None
        ELSE Some(3 * Val(point[1]) - 2 * Val(point[2]))

\* value a is known and strictly below the known value b
Lower(a, b) == Known(a) /\ Known(b) /\ Val(a) < Val(b)

\* the current close is above the current EMA
Uptrend ==
    LET closes == [k \in 1..Len(candles) |-> candles[k].close]
        ema == Val(At(calculate_ema(closes, self.ema_period), -1))
    IN  At(candles, -1).close * ema[2] > ema[1]

\* the swing points the trend selects from: lows in an uptrend, highs otherwise
SelectableSwings ==
    IF Uptrend THEN detect_swing_points(candles, self.swing_window)[2]
    ELSE detect_swing_points(candles, self.swing_window)[1]

\* the selected swing index: the most recent of them
SwingIndex == At(SelectableSwings, -1)

\* the comparisons that hold between the current candle and the swing candle
LowerThanSwing ==
    {c \in {"rsi", "macd", "j"} :
        CASE c = "rsi" -> Lower(RsiAt(Len(candles) - 1), RsiAt(SwingIndex))
          [] c = "macd" -> Lower(MacdAt(Len(candles) - 1), MacdAt(SwingIndex))
          [] c = "j" -> Lower(JAt(Len(candles) - 1), JAt(SwingIndex))}
HigherThanSwing ==
    {c \in {"rsi", "macd", "j"} :
        CASE c = "rsi" -> Lower(RsiAt(SwingIndex), RsiAt(Len(candles) - 1))
          [] c = "macd" -> Lower(MacdAt(SwingIndex), MacdAt(Len(candles) - 1))
          [] c = "j" -> Lower(JAt(SwingIndex), JAt(Len(candles) - 1))}

\* the call got past the candle-count and provider checks of Hidden Divergence
HiddenEvaluates ==
    /\ strategy = "Hidden Divergence"
    /\ DefaultPeriods
    /\ self.provider.present
    /\ Len(candles) >= Max2(self.ema_period, 3)

HiddenSellCase ==
    /\ Uptrend
    /\ SelectableSwings # <<>>
    /\ At(candles, -1).close > Py(candles, SwingIndex).close
    /\ Cardinality(LowerThanSwing) >= 2

HiddenBuyCase ==
    /\ ~Uptrend
    /\ SelectableSwings # <<>>
    /\ At(candles, -1).close < Py(candles, SwingIndex).close
    /\ Cardinality(HigherThanSwing) >= 2

\* C14 (as claimed): Hidden Divergence takes the trend as uptrend exactly when
\* the current close is above the current EMA; it emits sell exactly when the
\* trend is up, the close is above the close at the selected swing index and at
\* least 2 of RSI, MACD, J are lower than at the swing; buy exactly in the
\* mirrored downtrend case; otherwise hold.
C14_HiddenDivergence ==
    HiddenEvaluates =>
        /\ Emits("sell") <=> HiddenSellCase
        /\ Emits("buy") <=> HiddenBuyCase
        /\ (~HiddenSellCase /\ ~HiddenBuyCase) => Emits("hold")


-----------------------------------------------------------------------------
(* Properties of repeated calls (TwiceSpec) *)

-----------------------------------------------------------------------------
(* Properties of the notification and of the loop's order (Spec) *)

\* the groups the loop collected, rebuilt from the call log: one per symbol
\* whose bot yielded, in symbol order, holding the SignalModels it produced
CollectedGroups ==
    LET yielding == SelectSeq([i \in 1..Len(symbols) |-> i],
                              LAMBDA i : Logged("collect", i))
    IN  [k \in 1..Len(yielding) |->
            [symbol |-> symbols[yielding[k]], signals |-> Produced(yielding[k])]]

\* C16: when the notifier's send raises, run_all_bots catches the exception and
\* returns normally, and the collected groups are what the loop collected.
C16_SendFailureIsCaught ==
    Logged("send_error", 0) =>
        /\ pc = "done"
        /\ Logged("send", 0)
        /\ all_signals = CollectedGroups

\* a run of two symbols, both collected, whose send raised
C16_Witness ==
    /\ Logged("send_error", 0)
    /\ pc = "done"
    /\ Len(all_signals) = 2


-----------------------------------------------------------------------------
(* Properties of the guards' reasons (StrategySpec) *)

\* the reasons that state that the candle data is insufficient
InsufficientReasons ==
    {"Insufficient candles data for divergence analysis.",
     "Insufficient candles data",
     "Insufficient candles data for swing point and trend analysis."}

\* C17 (as claimed): a call with fewer candles than the strategy's minimum returns
\* a SignalModel whose reason field states that the data is insufficient.
C17_ReasonStatesInsufficientData ==
    (strategy # "" /\ Len(candles) < C2_Minimum) =>
        /\ Returned
        /\ outcome.model.reason \in InsufficientReasons

\* the reasons that state that no data provider is set
ProviderNotSetReasons == {"Data provider not set.", "Data provider not set"}

\* C18: with no data provider attached and at least the strategy's minimum of
\* candles, each strategy returns hold with the reason that the data provider
\* is not set, without any get_indicator call and without raising.
C18_NoProviderHolds ==
    (strategy # "" /\ ~self.provider.present /\ Len(candles) >= C2_Minimum) =>
        /\ Returned
        /\ outcome.model.signal = "hold"
        /\ outcome.model.reason \in ProviderNotSetReasons
        /\ outcome.calls = 0

\* Moving Average, which has no candle minimum, called without a provider
C18_Witness ==
    /\ strategy = "Moving Average"
    /\ ~self.provider.present
    /\ Returned
    /\ outcome.model.reason = "Data provider not set."
    /\ outcome.calls = 0


\* the events of the call log that belong to a symbol's iteration
LoopEvents == SelectSeq(log, LAMBDA e : e[2] # 0)

\* the i-th symbol's iteration ended: its group was collected or its failure handled
Ended(e, i) == e = <<"collect", i>> \/ e = <<"error", i>>

\* C19: run_all_bots takes the symbols one at a time in list order: the events
\* of a symbol never precede those of an earlier one, a symbol's evaluation
\* starts only right after the delay of the previous symbol, the delay comes
\* right after the symbol's evaluation finished or failed, and it follows every
\* symbol; a finished run has gone through the delay of every symbol.
C19_SequentialWithDelay ==
    LET events == LoopEvents
    IN  /\ \A j, k \in DOMAIN events : j < k => events[j][2] <= events[k][2]
        /\ \A k \in DOMAIN events :
              /\ (events[k][1] \in {"start", "fetch"} /\ events[k][2] > 1) =>
                    \E j \in 1..(k - 1) :
                        /\ events[j] = <<"sleep", events[k][2] - 1>>
                        /\ \A m \in (j + 1)..(k - 1) : events[m][2] = events[k][2]
              /\ events[k][1] = "start" =>
                    (k = 1 \/ events[k - 1] = <<"sleep", events[k][2] - 1>>)
              /\ events[k][1] = "sleep" =>
                    (k > 1 /\ Ended(events[k - 1], events[k][2]))
              /\ (Ended(events[k], events[k][2]) /\ k < Len(events)) =>
                    events[k + 1] = <<"sleep", events[k][2]>>
        /\ \A i \in DOMAIN symbols :
              (bot > i \/ pc = "done") => (Evaluated(i) /\ Processed(i))

\* three symbols, the second failed and the others were collected; each was
\* followed by the delay
C19_Witness ==
    /\ pc = "done"
    /\ Len(symbols) = 3
    /\ Logged("collect", 1) /\ Logged("error", 2) /\ Logged("collect", 3)
    /\ Processed(1) /\ Processed(2) /\ Processed(3)


-----------------------------------------------------------------------------
(* Properties of the swing selection of Hidden Divergence (HiddenSpec) *)

\* the greatest of a non-empty list of indices
Greatest(list) == CHOOSE i \in Members(list) : \A j \in Members(list) : i >= j

\* the swing points of the kind the trend does not select from
OtherSwings ==
    IF Uptrend THEN detect_swing_points(candles, self.swing_window)[1]
    ELSE detect_swing_points(candles, self.swing_window)[2]

NoSwingReason == "No valid swing point for divergence comparison."

\* C21: Hidden Divergence compares against the swing low of greatest index in an
\* uptrend and the swing high of greatest index in a downtrend (the swing values
\* it reports are the provider's at that index); when the trend has no swing
\* point of its kind the call returns hold with the no-valid-swing-point reason,
\* whatever swing points of the other kind exist.
C21_SwingSelection ==
    HiddenEvaluates =>
        /\ SelectableSwings = <<>> =>
             /\ Emits("hold")
             /\ outcome.model.reason = NoSwingReason
        /\ (SelectableSwings # <<>> /\ Returned) =>
             /\ outcome.model.reason # NoSwingReason
             /\ outcome.model.details.swing_rsi = RsiAt(Greatest(SelectableSwings))
             /\ outcome.model.details.swing_macd = MacdAt(Greatest(SelectableSwings))

\* an uptrend with swing highs and no swing low: hold, no valid swing point
C21_Witness ==
    /\ HiddenEvaluates
    /\ Uptrend
    /\ SelectableSwings = <<>>
    /\ OtherSwings # <<>>
    /\ Emits("hold")
    /\ outcome.model.reason = NoSwingReason


-----------------------------------------------------------------------------
(* Properties of the volume-spike condition of Bollinger Bands (BollingerSpec) *)

\* the call took its volume-spike condition as holding: it emitted buy or sell,
\* which require it, or listed it among the reasons of a hold
VolumeSpikeTaken ==
    \/ Emits("buy")
    \/ Emits("sell")
    \/ Emits("hold") /\ Recorded("Volume spike")

\* C22 (as claimed): the volume-spike condition of Bollinger Bands holds exactly
\* when the current volume is strictly above 1.2 x the mean of the volume_window
\* volumes before it, all-zero trailing volumes included, and it is the condition
\* Moving Average computes on the same candles.
C22_VolumeSpikeIsTrailingMeanTest ==
    (strategy = "Bollinger Bands" /\ DefaultPeriods /\ self.provider.present
     /\ Len(candles) >= C2_Minimum) =>
        /\ VolumeSpikeTaken <=> VolumeAboveTrailingMean
        /\ VolumeSpikeTaken <=> MAVolRise(candles, self.volume_window)


-----------------------------------------------------------------------------
(* Properties of the stochastic J value of Hidden Divergence (HiddenSpec) *)

\* C23 (as claimed): the J values Hidden Divergence derives at the current index
\* and at the swing index are 3K - 2D of the K and D the provider supplies there,
\* K = 0 and D = 0 included.
C23_JIsThreeKMinusTwoD ==
    (HiddenEvaluates /\ Returned /\ SelectableSwings # <<>>) =>
        /\ outcome.model.details.current_kdj_j = JAt(Len(candles) - 1)
        /\ outcome.model.details.swing_kdj_j = JAt(SwingIndex)


-----------------------------------------------------------------------------
(* Properties of a symbol's contribution (Spec) *)

\* the positions of the call log holding the event
PositionsOf(what, i) == {j \in DOMAIN log : log[j] = <<what, i>>}

\* C24: every group collected holds exactly one SignalModel per strategy of the
\* bot, in the strategies' order; a symbol for which a strategy or the executor
\* raised has no group; execute_trade is invoked at most once per symbol, and
\* before the symbol's group is collected.
C24_AllOrNothing ==
    /\ \A g \in DOMAIN all_signals :
          /\ Len(all_signals[g].signals) = Len(ConfiguredOrder)
          /\ \A k \in DOMAIN ConfiguredOrder :
                all_signals[g].signals[k].strategy = ConfiguredOrder[k]
    /\ \A i \in DOMAIN symbols :
          /\ Failed(i) => GroupsOf(symbols[i]) = {}
          /\ Cardinality(GroupsOf(symbols[i])) <= 1
          /\ Cardinality(PositionsOf("execute", i)) <= 1
          /\ GroupsOf(symbols[i]) # {} =>
                \E e \in PositionsOf("execute", i), c \in PositionsOf("collect", i) : e < c

\* the number of SignalModels the strategies returned for the i-th symbol
SignalsReturned(i) ==
    Cardinality({j \in DOMAIN log : log[j][1] = "signal" /\ log[j][2] = i})

\* a finished run of three symbols: for one the third strategy raised after two
\* had returned, for one the executor raised, and the third one's group was
\* collected
C24_Witness ==
    /\ pc = "done"
    /\ \E i, j \in DOMAIN symbols :
          /\ SignalsReturned(i) = 2 /\ Failed(i) /\ ~Logged("execute", i)
          /\ GroupsOf(symbols[i]) = {}
          /\ SignalsReturned(j) = 4 /\ Failed(j) /\ Logged("execute", j)
          /\ GroupsOf(symbols[j]) = {}
    /\ Len(all_signals) = 1


-----------------------------------------------------------------------------
(* Properties of the guards' reach in Hidden Divergence (HiddenSpec) *)

\* the EMA of the closes at the last candle, None while undefined
LastEma ==
    At(calculate_ema([k \in 1..Len(candles) |-> candles[k].close], self.ema_period), -1)

\* every swing point detected on the candles, of either kind
AllSwings ==
    Members(detect_swing_points(candles, self.swing_window)[1])
    \cup Members(detect_swing_points(candles, self.swing_window)[2])

\* C25: past the candle-count guard, with ema_period >= 1 the EMA at the last
\* index is defined, and with swing_window >= 1 every swing index (so the
\* selected one) is at most len(candles) - 2: a hold for want of a valid swing
\* point is always for want of a swing point of the trend's kind.
C25_GuardMakesEmaAndSwingSafe ==
    (HiddenEvaluates /\ self.ema_period >= 1 /\ self.swing_window >= 1) =>
        /\ Known(LastEma)
        /\ \A i \in AllSwings : i <= Len(candles) - 2
        /\ (Returned /\ outcome.model.reason = NoSwingReason) => SelectableSwings = <<>>

\* exactly ema_period candles, so the EMA is first defined at the last index,
\* and the swing point selected is the candle before the last
C25_Witness ==
    /\ HiddenEvaluates
    /\ self.ema_period >= 3
    /\ Len(candles) = self.ema_period
    /\ Known(LastEma)
    /\ SelectableSwings # <<>>
    /\ SwingIndex = Len(candles) - 2
    /\ Returned
    /\ outcome.model.reason # NoSwingReason


-----------------------------------------------------------------------------
(* Properties of the indicator field names (StrategySpec) *)

\* C26 (as claimed): for every configuration, non-default periods included, the
\* field a strategy reads from a result point is the one named for the
\* parameters it passed to get_indicator, which every point of that result
\* carries: no read of a result point fails for want of the field.
C26_FieldNamedForParameters ==
    (strategy # "" /\ self.provider.present) =>
        ~(outcome.raised /\ outcome.exc = "AttributeError")


-----------------------------------------------------------------------------
(* Properties of Hidden Divergence inside TradeBot (Spec) *)

\* position of Hidden Divergence among the strategies of a bot
HiddenPosition == CHOOSE k \in DOMAIN ConfiguredOrder : ConfiguredOrder[k] = "Hidden Divergence"

\* C27: in a TradeBot run whose provider returned at most 30 candles, the default
\* Hidden Divergence (ema_period 50) makes no indicator call and returns hold:
\* the Hidden Divergence entry of the list the run yields, and of the group
\* collected from it, is hold, never buy or sell.
C27_HiddenAlwaysHoldsInBot ==
    Len(run.candles) <= Lookback =>
        /\ Len(run.indicator_calls) >= HiddenPosition =>
              run.indicator_calls[HiddenPosition] = 0
        /\ Len(run.signals) >= HiddenPosition =>
              /\ run.signals[HiddenPosition].strategy = "Hidden Divergence"
              /\ run.signals[HiddenPosition].signal = "hold"
        /\ \A y \in DOMAIN run.yielded :
              /\ run.yielded[y][HiddenPosition].strategy = "Hidden Divergence"
              /\ run.yielded[y][HiddenPosition].signal = "hold"
        /\ \A g \in GroupsOf(run.symbol) :
              /\ all_signals[g].signals[HiddenPosition].strategy = "Hidden Divergence"
              /\ all_signals[g].signals[HiddenPosition].signal = "hold"

\* a run on 30 candles whose group was collected with a buy of another strategy
\* beside the hold of Hidden Divergence
C27_Witness ==
    /\ Len(run.candles) = Lookback
    /\ run.yielded # <<>>
    /\ run.indicator_calls[HiddenPosition] = 0
    /\ GroupsOf(run.symbol) # {}
    /\ \A g \in GroupsOf(run.symbol) :
          /\ all_signals[g].signals[HiddenPosition].signal = "hold"
          /\ \E k \in DOMAIN ConfiguredOrder : all_signals[g].signals[k].signal = "buy"


====
